---- MODULE Spec2Model ----
(***************************************************************************)
(* Cluster access core of firecrest-v2: the SSH client pool registry       *)
(* (SSHClientDependency), the service availability gate                    *)
(* (ServiceAvailabilityDependency), the per-cluster health cycle           *)
(* (ClusterHealthChecker.check), the S3 transfer operations and their part *)
(* count (S3Datatransfer.upload / download) and the token verifier         *)
(* (OIDCTokenAuth).                                                        *)
(***************************************************************************)
EXTENDS Integers, Sequences, FiniteSets, TLC

VARIABLES
    file_systems,     \* HPCCluster.file_systems, per configured cluster (read only)
    servicesHealth,   \* HPCCluster.servicesHealth, per configured cluster
    hpc,              \* position of each cluster's ClusterHealthChecker.check()
    results,          \* the results the running gather() has collected so far
    stamp,            \* the time the running cycle stamps on its records
    clock,            \* time.time(), advanced at every cycle start
    raised,           \* what the last finished check() raised to its caller
    client_pools,     \* SSHClientDependency.client_pools
    lock,             \* SSHClientDependency.lock: its holder
    constructed,      \* number of SSHClientPool(...) constructions per name
    pruned,           \* pools on which prune_connection_pool() was invoked
    pc,               \* position of each caller inside SSHClientDependency.__call__
    call,             \* arguments of each caller's running call
    result,           \* what each caller's call returned or raised
    admission,        \* the last direct ServiceAvailabilityDependency call
    transfer,         \* the part count computation of one upload / download
    buckets,          \* object storage: the buckets that exist
    lifecycle,        \* object storage: the lifecycle configurations put, in order
    jobs,             \* scheduler: the jobs submitted, in order
    run,              \* the running S3Datatransfer.upload / download
    public_keys,      \* OIDCTokenAuth.public_keys
    authn,            \* the running OIDCTokenAuth construction / authenticate call
    oidc,             \* settings.auth.authentication (read only)
    verifiers,        \* the OIDCTokenAuth objects: APIAuthDependency.globalAuthN, token_decoder
    construction,     \* the last OIDCTokenAuth(...) call: its endpoints' answers, the cache before
    verified,         \* the last token handed to a verifier, and what came back
    backend           \* the last DataTransferDependency call, and what came back

vars == <<file_systems, servicesHealth, hpc, results, stamp, clock, raised, client_pools, lock,
          constructed, pruned, pc, call, result, admission, transfer,
          buckets, lifecycle, jobs, run, public_keys, authn,
          oidc, verifiers, construction, verified, backend>>

transferVars == <<buckets, lifecycle, jobs, run>>
authVars == <<public_keys, authn>>
serviceVars == <<oidc, verifiers, construction, verified, backend>>
otherVars == <<transfer, transferVars, authVars, serviceVars>>

healthVars == <<file_systems, servicesHealth, hpc, results, stamp, clock, raised>>
poolVars == <<client_pools, lock, constructed, pruned, pc, call, result>>

(***************************************************************************)
(* Bounds of the model.                                                    *)
(***************************************************************************)
NumCallers == 2
MaxCycles == 2
MaxFileSize == 9
MaxPartSize == 4

\* Python's None, for each type of value the model compares it with: a text,
\* a path, an object, a list
None == "None"
NoPath == << "None" >>
NoMessage == << "None" >>
NoObject == [none |-> TRUE]
NoList == [list |-> FALSE, items |-> << >>]
List(items) == [list |-> TRUE, items |-> items]
\* the slot of an awaitable gather() has no result for yet
Pending == [pending |-> TRUE]
NoCaller == 0
Callers == 1..NumCallers

(***************************************************************************)
(* Configuration: settings.clusters.  Names are stored lower-cased; "x" is *)
(* a name no cluster carries.  Paths are strings, modelled as sequences of *)
(* characters, so that str.startswith is the prefix relation on them.      *)
(***************************************************************************)
ClusterNames == {"a", "b"}
SystemNames == ClusterNames \cup {"x"}

PathS == <<"/", "s">>
PathSC == <<"/", "s", "c">>
PathH == <<"/", "h">>
PathRoot == <<"/">>

\* one deployment: cluster a mounts /s, cluster b mounts nothing
Deployment ==
    [a |-> << [path |-> PathS, default_work_dir |-> TRUE] >>,
     b |-> << >>]

RequestPaths == {NoPath, PathRoot, PathS, PathSC, PathH}

HealthCheckType == {"scheduler", "filesystem", "ssh", "s3", "exception"}
AdmissionKinds == {"scheduler", "ssh", "filesystem"}

\* a filesystem request carries a path (query parameter or body field) or none;
\* the request of another service is not looked at
AdmissionRequests ==
    {[kind |-> k, path |-> NoPath] : k \in {"scheduler", "ssh"}}
    \cup {[kind |-> "filesystem", path |-> p] : p \in RequestPaths}

(***************************************************************************)
(* Health records.  A record of the snapshot is a BaseServiceHealth; the   *)
(* other thing asyncio.gather(return_exceptions=True) can hand back is the *)
(* exception object a probe raised.                                        *)
(***************************************************************************)
BaseFields == {"service_type", "healthy", "message", "last_checked"}

IsHealthRecord(r) == DOMAIN r \in {BaseFields, BaseFields \cup {"path"}}

RawException(class, msg) == [exc_class |-> class, exc_msg |-> msg]

ErrorMessage_ClassOnly(ex) ==
    <<"Cluster HealthChecker execution failed with error: ", ex.exc_class>>

\* HealthCheckException(service_type="exception") filled in by the except branch
ErrorMessage(ex) ==
    IF ex.exc_msg # ""
    THEN <<"Cluster HealthChecker execution failed with error: ", ex.exc_class, " - ", ex.exc_msg>>
    ELSE <<"Cluster HealthChecker execution failed with error: ", ex.exc_class>>

ExceptionSnapshot_Raw(ex, now) == << ex >>

ExceptionSnapshot(ex, now) ==
    << [service_type |-> "exception", healthy |-> FALSE,
        message |-> ErrorMessage(ex), last_checked |-> now] >>

\* errors of client.fetch_token(...) and token_decoder.auth_from_token(...)
TokenErrors ==
    { RawException("ConnectTimeout", ""),
      RawException("ExpiredSignatureError", "Signature has expired.") }

(***************************************************************************)
(* Probes.  The probe classes (SchedulerHealthCheck, SSHHealthCheck,       *)
(* FilesystemHealthCheck) are defined in another module: a probe           *)
(* bounded by the probing timeout ends healthy, or times out, or fails,    *)
(* and hands back a record in each case.                                   *)
(***************************************************************************)
ProbeOutcomes == {"ok", "timeout", "error"}

ProbeResult(kind, path, outcome, now) ==
    LET base == [service_type |-> kind, healthy |-> (outcome = "ok"),
                 message |-> IF outcome = "ok" THEN NoMessage ELSE << outcome >>,
                 last_checked |-> now]
    IN  IF kind = "filesystem"
        THEN [f \in BaseFields \cup {"path"} |-> IF f = "path" THEN path ELSE base[f]]
        ELSE base

Checks_FilesystemsFirst(cluster) ==
    [i \in 1..Len(file_systems[cluster]) |->
        [kind |-> "filesystem", path |-> file_systems[cluster][i].path]]
    \o << [kind |-> "scheduler", path |-> NoPath], [kind |-> "ssh", path |-> NoPath] >>

\* the coroutines check() collects: scheduler, ssh, one per filesystem
Checks(cluster) ==
    << [kind |-> "scheduler", path |-> NoPath], [kind |-> "ssh", path |-> NoPath] >>
    \o [i \in 1..Len(file_systems[cluster]) |->
            [kind |-> "filesystem", path |-> file_systems[cluster][i].path]]

NumChecks(cluster) == Len(Checks(cluster))

\* the longest list of checks of the deployment
MaxChecks == 2 + Len(Deployment.a)

\* asyncio.gather(*checks, return_exceptions=True): resumes once every awaitable
\* is done and never raises on behalf of one of them
Gather_FailFast(res) ==
    IF \E i \in 1..Len(res) : res[i] # Pending /\ IsHealthRecord(res[i]) /\ ~res[i].healthy
    THEN [done |-> TRUE, raises |-> TRUE, value |-> << >>]
    ELSE [done |-> \A i \in 1..Len(res) : res[i] # Pending, raises |-> FALSE, value |-> res]

Gather(res) ==
    [done |-> \A i \in 1..Len(res) : res[i] # Pending, raises |-> FALSE, value |-> res]

(***************************************************************************)
(* ServiceAvailabilityDependency                                           *)
(***************************************************************************)
RECURSIVE IsPrefix(_, _)
IsPrefix(p, s) ==
    IF p = << >> THEN TRUE
    ELSE IF s = << >> THEN FALSE
    ELSE Head(p) = Head(s) /\ IsPrefix(Tail(p), Tail(s))

Matches_SamePath(kind, path, service) ==
    /\ service.service_type = kind
    /\ (kind = "filesystem" => service.path = path)

Matches_TypeOnly(kind, path, service) == service.service_type = kind

\* the lambda handed to filter(): the path is read only for a filesystem record
Matches(kind, path, service) ==
    /\ service.service_type = kind
    /\ (kind = "filesystem" => IsPrefix(service.path, path))

\* a search that keeps looking and settles on the last matching record
RECURSIVE FirstMatch_LastMatch(_, _, _)
FirstMatch_LastMatch(kind, path, snapshot) ==
    IF snapshot = << >> THEN NoObject
    ELSE IF ~IsHealthRecord(Head(snapshot)) THEN [raises |-> "AttributeError"]
    ELSE LET later == FirstMatch_LastMatch(kind, path, Tail(snapshot))
         IN  IF later # NoObject THEN later
             ELSE IF Matches(kind, path, Head(snapshot)) THEN Head(snapshot)
             ELSE NoObject

\* next(filter(lambda, system.servicesHealth), None); reading service_type of an
\* element that is not a record raises AttributeError
RECURSIVE FirstMatch(_, _, _)
FirstMatch(kind, path, snapshot) ==
    IF snapshot = << >> THEN NoObject
    ELSE IF ~IsHealthRecord(Head(snapshot)) THEN [raises |-> "AttributeError"]
    ELSE IF Matches(kind, path, Head(snapshot)) THEN Head(snapshot)
    ELSE FirstMatch(kind, path, Tail(snapshot))

\* if system.servicesHealth:
Truthy(health) == health.list /\ health.items # << >>

HealthGate_SkipUnhealthy(kind, path, health) ==
    IF kind = "filesystem" /\ path = NoPath THEN "400"
    ELSE LET service == IF Truthy(health)
                        THEN FirstMatch(kind, path, health.items)
                        ELSE NoObject
         IN  IF service = NoObject THEN "428"
             ELSE IF ~IsHealthRecord(service) THEN "500"
             ELSE "ok"

\* a gate that reports a service nobody monitors as unavailable
HealthGate_MissingUnavailable(kind, path, health) ==
    IF kind = "filesystem" /\ path = NoPath THEN "400"
    ELSE LET service == IF Truthy(health)
                        THEN FirstMatch(kind, path, health.items)
                        ELSE NoObject
         IN  IF service = NoObject THEN "503"
             ELSE IF ~IsHealthRecord(service) THEN "500"
             ELSE IF ~service.healthy THEN "503"
             ELSE "ok"

\* __scheduler_health / __ssh_health / __file_system_health
HealthGate(kind, path, health) ==
    IF kind = "filesystem" /\ path = NoPath THEN "400"
    ELSE LET service == IF Truthy(health)
                        THEN FirstMatch(kind, path, health.items)
                        ELSE NoObject
         IN  IF service = NoObject THEN "428"
             ELSE IF ~IsHealthRecord(service) THEN "500"
             ELSE IF ~service.healthy THEN "503"
             ELSE "ok"

\* next(filter(lambda cluster: cluster.name == system_name, settings.clusters))
KnownCluster(system_name) == system_name \in ClusterNames

ServiceAvailability_IgnoreFirst(system_name, kind, ignore_health, path, health) ==
    IF ignore_health THEN "ok"
    ELSE IF ~KnownCluster(system_name) THEN "404"
    ELSE IF kind \in AdmissionKinds
         THEN HealthGate(kind, path, health[system_name])
         ELSE "ok"

\* ServiceAvailabilityDependency(service_type, ignore_health)(system_name, request)
ServiceAvailability(system_name, kind, ignore_health, path, health) ==
    IF ~KnownCluster(system_name) THEN "404"
    ELSE IF ~ignore_health /\ kind \in AdmissionKinds
         THEN HealthGate(kind, path, health[system_name])
         ELSE "ok"

NoAdmission == [system_name |-> None, kind |-> None, ignore_health |-> FALSE,
                path |-> NoPath, outcome |-> None]

AdmissionCheck(system_name, kind, ignore_health, path) ==
    /\ admission = NoAdmission
    /\ admission' = [system_name |-> system_name, kind |-> kind,
                     ignore_health |-> ignore_health, path |-> path,
                     outcome |-> ServiceAvailability(system_name, kind, ignore_health,
                                                     path, servicesHealth)]
    /\ UNCHANGED <<healthVars, poolVars, otherVars>>

\* the request handler takes the outcome
AdmissionReturn ==
    /\ admission # NoAdmission
    /\ admission' = NoAdmission
    /\ UNCHANGED <<healthVars, poolVars, otherVars>>

(***************************************************************************)
(* ClusterHealthChecker.check                                              *)
(***************************************************************************)
CycleStart(cluster) ==
    /\ hpc[cluster] = "idle"
    /\ clock < MaxCycles
    /\ clock' = clock + 1
    /\ stamp' = [stamp EXCEPT ![cluster] = clock + 1]
    /\ hpc' = [hpc EXCEPT ![cluster] = "token"]
    /\ UNCHANGED <<file_systems, servicesHealth, results, raised, poolVars, admission,
                   otherVars>>

\* the except branch: publish the one-record snapshot, then raise ex
ExceptBranch(cluster, ex) ==
    /\ servicesHealth' = [servicesHealth EXCEPT
                             ![cluster] = List(ExceptionSnapshot(ex, stamp[cluster]))]
    /\ raised' = [raised EXCEPT ![cluster] = ex]
    /\ results' = [results EXCEPT ![cluster] = << >>]
    /\ hpc' = [hpc EXCEPT ![cluster] = "idle"]

TokenFail(cluster, ex) ==
    /\ hpc[cluster] = "token"
    /\ ExceptBranch(cluster, ex)
    /\ UNCHANGED <<file_systems, stamp, clock, poolVars, admission, otherVars>>

TokenOk(cluster) ==
    /\ hpc[cluster] = "token"
    /\ results' = [results EXCEPT ![cluster] = [i \in 1..NumChecks(cluster) |-> Pending]]
    /\ hpc' = [hpc EXCEPT ![cluster] = "gather"]
    /\ UNCHANGED <<file_systems, servicesHealth, stamp, clock, raised, poolVars,
                   admission, otherVars>>

ProbeStore_InPlace(cluster, i, rec) ==
    /\ results' = [results EXCEPT ![cluster][i] = rec]
    /\ servicesHealth' = [servicesHealth EXCEPT ![cluster] =
            List(IF i <= Len(@.items) THEN [@.items EXCEPT ![i] = rec]
                 ELSE Append(@.items, rec))]

\* where a finished probe's result goes: into the list gather() is building
ProbeStore(cluster, i, rec) ==
    /\ results' = [results EXCEPT ![cluster][i] = rec]
    /\ UNCHANGED servicesHealth

ProbeDone(cluster, i, outcome) ==
    /\ hpc[cluster] = "gather"
    /\ i \in 1..Len(results[cluster])
    /\ results[cluster][i] = Pending
    /\ ProbeStore(cluster, i,
                  ProbeResult(Checks(cluster)[i].kind, Checks(cluster)[i].path,
                              outcome, stamp[cluster]))
    /\ UNCHANGED <<file_systems, hpc, stamp, clock, raised, poolVars, admission, otherVars>>

GatherReturn(cluster) ==
    /\ hpc[cluster] = "gather"
    /\ Gather(results[cluster]).done
    /\ IF Gather(results[cluster]).raises
       THEN ExceptBranch(cluster, RawException("ProbeError", "probe failed"))
       ELSE /\ servicesHealth' = [servicesHealth EXCEPT
                                     ![cluster] = List(Gather(results[cluster]).value)]
            /\ raised' = [raised EXCEPT ![cluster] = NoObject]
            /\ results' = [results EXCEPT ![cluster] = << >>]
            /\ hpc' = [hpc EXCEPT ![cluster] = "idle"]
    /\ UNCHANGED <<file_systems, stamp, clock, poolVars, admission, otherVars>>

(***************************************************************************)
(* SSHClientDependency                                                     *)
(***************************************************************************)
NoCall == [system_name |-> None, ignore_health |-> FALSE]

IsPool(p) == DOMAIN p = {"system_name", "serial"}

NoResult == [kind |-> "none"]
Returned(value) == [kind |-> "returned", value |-> value]
Raised(status) == [kind |-> "raised", status |-> status]

\* ServiceAvailabilityDependency(ssh, ignore_health)(system_name), first thing
AcquireGate(c, system_name, ignore_health) ==
    /\ pc[c] = "idle"
    /\ call' = [call EXCEPT ![c] = [system_name |-> system_name,
                                    ignore_health |-> ignore_health]]
    /\ LET outcome == ServiceAvailability(system_name, "ssh", ignore_health, NoPath,
                                          servicesHealth)
       IN  IF outcome = "ok"
           THEN /\ pc' = [pc EXCEPT ![c] = "lock"]
                /\ UNCHANGED result
           ELSE /\ pc' = [pc EXCEPT ![c] = "done"]
                /\ result' = [result EXCEPT ![c] = Raised(outcome)]
    /\ UNCHANGED <<healthVars, client_pools, lock, constructed, pruned, admission, otherVars>>

LockFree_NoMutex == TRUE

\* async with SSHClientDependency.lock
LockFree == lock = NoCaller

AcquireLock(c) ==
    /\ pc[c] = "lock"
    /\ LockFree
    /\ lock' = c
    /\ pc' = [pc EXCEPT ![c] = "lookup"]
    /\ UNCHANGED <<healthVars, client_pools, constructed, pruned, call, result,
                   admission, otherVars>>

InRegistry_Never(system_name) == FALSE

\* system_name in SSHClientDependency.client_pools
InRegistry(system_name) == client_pools[system_name] # NoObject

\* a lookup that returns the registered pool without leaving the locked region
AcquireLookup_KeepLock(c) ==
    /\ pc[c] = "lookup"
    /\ IF InRegistry(call[c].system_name)
       THEN /\ result' = [result EXCEPT ![c] = Returned(client_pools[call[c].system_name])]
            /\ pc' = [pc EXCEPT ![c] = "done"]
            /\ UNCHANGED lock
       ELSE /\ pc' = [pc EXCEPT ![c] = "construct"]
            /\ UNCHANGED <<result, lock>>
    /\ UNCHANGED <<healthVars, client_pools, constructed, pruned, call, admission, otherVars>>

AcquireLookup(c) ==
    /\ pc[c] = "lookup"
    /\ IF InRegistry(call[c].system_name)
       THEN /\ result' = [result EXCEPT ![c] = Returned(client_pools[call[c].system_name])]
            /\ lock' = NoCaller
            /\ pc' = [pc EXCEPT ![c] = "done"]
       ELSE /\ pc' = [pc EXCEPT ![c] = "construct"]
            /\ UNCHANGED <<result, lock>>
    /\ UNCHANGED <<healthVars, client_pools, constructed, pruned, call, admission, otherVars>>

\* a construction that returns without leaving the locked region
AcquireConstruct_KeepLock(c) ==
    /\ pc[c] = "construct"
    /\ LET name == call[c].system_name
           client_pool == [system_name |-> name, serial |-> constructed[name] + 1]
       IN  /\ constructed' = [constructed EXCEPT ![name] = @ + 1]
           /\ client_pools' = [client_pools EXCEPT ![name] = client_pool]
           /\ result' = [result EXCEPT ![c] = Returned(client_pool)]
    /\ pc' = [pc EXCEPT ![c] = "done"]
    /\ UNCHANGED <<healthVars, lock, pruned, call, admission, otherVars>>

\* a construction that also forgets what the cluster's health checker published
AcquireConstruct_ResetSnapshot(c) ==
    /\ pc[c] = "construct"
    /\ LET name == call[c].system_name
           client_pool == [system_name |-> name, serial |-> constructed[name] + 1]
       IN  /\ constructed' = [constructed EXCEPT ![name] = @ + 1]
           /\ client_pools' = [client_pools EXCEPT ![name] = client_pool]
           /\ result' = [result EXCEPT ![c] = Returned(client_pool)]
           /\ servicesHealth' = [servicesHealth EXCEPT ![name] = NoList]
    /\ lock' = NoCaller
    /\ pc' = [pc EXCEPT ![c] = "done"]
    /\ UNCHANGED <<file_systems, hpc, results, stamp, clock, raised, pruned, call,
                   admission, otherVars>>

\* client_pool = SSHClientPool(...); client_pools[system_name] = client_pool
AcquireConstruct(c) ==
    /\ pc[c] = "construct"
    /\ LET name == call[c].system_name
           client_pool == [system_name |-> name, serial |-> constructed[name] + 1]
       IN  /\ constructed' = [constructed EXCEPT ![name] = @ + 1]
           /\ client_pools' = [client_pools EXCEPT ![name] = client_pool]
           /\ result' = [result EXCEPT ![c] = Returned(client_pool)]
    /\ lock' = NoCaller
    /\ pc' = [pc EXCEPT ![c] = "done"]
    /\ UNCHANGED <<healthVars, pruned, call, admission, otherVars>>

\* the caller takes the outcome; the next request may reuse the worker
Return(c) ==
    /\ pc[c] = "done"
    /\ pc' = [pc EXCEPT ![c] = "idle"]
    /\ call' = [call EXCEPT ![c] = NoCall]
    /\ result' = [result EXCEPT ![c] = NoResult]
    /\ UNCHANGED <<healthVars, client_pools, lock, constructed, pruned, admission, otherVars>>

PrunePools_DropPools ==
    /\ pruned' = pruned \cup {client_pools[n] : n \in {m \in SystemNames : client_pools[m] # NoObject}}
    /\ pruned' # pruned
    /\ client_pools' = [n \in SystemNames |-> NoObject]
    /\ UNCHANGED <<healthVars, lock, constructed, pc, call, result, admission, otherVars>>

\* SSHClientDependency.prune_client_pools
PrunePools ==
    /\ pruned' = pruned \cup {client_pools[n] : n \in {m \in SystemNames : client_pools[m] # NoObject}}
    /\ pruned' # pruned
    /\ UNCHANGED <<healthVars, client_pools, lock, constructed, pc, call, result,
                   admission, otherVars>>

(***************************************************************************)
(* S3Datatransfer: the number of parts.  Sizes are Python ints (unbounded) *)
(*   ceil(file_size / max_part_size)                                       *)
(* divides with "/", which hands back a float: the quotient rounded to the *)
(* nearest value with a 53 bit significand, ties to even; math.ceil of     *)
(* that float is exact.  A size is held in two limbs, hi * Limb + lo, and  *)
(* the part size is kept below 16, so that no intermediate value leaves    *)
(* the range of TLC's integers.                                    *)
(***************************************************************************)
SignificandBits == 53
\* a limb is just over half a significand wide
LimbBits == SignificandBits \div 2 + 1
Limb == 2 ^ LimbBits

Big(hi, lo) == [hi |-> hi, lo |-> lo]
Small(n) == Big(0, n)
IsZero(x) == x.hi = 0 /\ x.lo = 0
IsEven(x) == x.lo % 2 = 0
Succ(x) == IF x.lo + 1 = Limb THEN Big(x.hi + 1, 0) ELSE Big(x.hi, x.lo + 1)
\* x - 1, for x > 0
Pred(x) == IF x.lo = 0 THEN Big(x.hi - 1, Limb - 1) ELSE Big(x.hi, x.lo - 1)

RECURSIVE BitLength(_)
BitLength(n) == IF n = 0 THEN 0 ELSE 1 + BitLength(n \div 2)

BigBitLength(x) == IF x.hi > 0 THEN LimbBits + BitLength(x.hi) ELSE BitLength(x.lo)

\* the exact quotient and remainder of x by the small divisor d
DivMod(x, d) ==
    LET t == (x.hi % d) * Limb + x.lo
    IN  [quot |-> Big(x.hi \div d, t \div d), rem |-> t % d]

\* the mathematical ceil(x / d)
ExactCeilDiv(x, d) ==
    IF DivMod(x, d).rem = 0 THEN DivMod(x, d).quot ELSE Succ(DivMod(x, d).quot)

\* math.ceil(x / d): x / d is quot + rem / d rounded to SignificandBits bits
CeilTrueDiv(x, d) ==
    LET q == DivMod(x, d).quot
        r == DivMod(x, d).rem
        \* bits of the significand left for the fraction rem / d
        f == SignificandBits - BigBitLength(q)
    IN  IF f >= 0
        THEN \* the fraction rounds to k / 2^f; the float is q when k = 0 and above q,
             \* at most q + 1, otherwise.  k = 0 when rem / d is below half a unit of
             \* the last place, or exactly half of it and the significand of q is even
             LET half == IF f + 1 > LimbBits THEN Limb ELSE 2 ^ (f + 1)
                 toZero == \/ r = 0
                           \/ r * half < d
                           \/ r * half = d /\ (f >= 1 \/ IsEven(q))
             IN  IF toZero THEN q ELSE Succ(q)
        ELSE \* 2^53 <= q < 2^54: floats are the even integers
             IF IsEven(q) THEN q
             ELSE IF r > 0 THEN Succ(q)
             ELSE \* a tie between q - 1 and q + 1: the one whose half is even
                  IF IsEven(DivMod(Pred(q), 2).quot) THEN Pred(q) ELSE Succ(q)

\* len(range(1, n + 1)) for n >= 0
PartCount(file_size, max_part_size) == CeilTrueDiv(file_size, max_part_size)

NoTransfer == [file_size |-> Small(0), max_part_size |-> 1, op |-> "none",
               parts |-> Small(0)]

\* upload: one presigned upload_part URL per part number
UploadParts ==
    /\ transfer.op = "none"
    /\ transfer' = [transfer EXCEPT !.op = "upload",
                       !.parts = PartCount(transfer.file_size, transfer.max_part_size)]
    /\ UNCHANGED <<healthVars, poolVars, admission, transferVars, authVars, serviceVars>>

\* download: the size is the one stat reports
DownloadParts ==
    /\ transfer.op = "none"
    /\ transfer' = [transfer EXCEPT !.op = "download",
                       !.parts = PartCount(transfer.file_size, transfer.max_part_size)]
    /\ UNCHANGED <<healthVars, poolVars, admission, transferVars, authVars, serviceVars>>

\* file sizes: the small ones, and the ones around 2^53
FileSizes ==
    {Small(n) : n \in 0..MaxFileSize}
    \cup {Big(2 ^ (SignificandBits - LimbBits) - 1, Limb - 1)}
    \cup {Big(2 ^ (SignificandBits - LimbBits), n) : n \in 0..3}

PartSizes == 1..MaxPartSize

(***************************************************************************)
(* S3Datatransfer.upload / download, one operation at a time, against an   *)
(* object storage and a scheduler that answer or fail.  Names are Python   *)
(* strings put together by f-strings: sequences of their pieces.  The uuid *)
(* of an object name is the number of the operation.                       *)
(***************************************************************************)
MaxTransfers == 2

\* None or "": what "if tenant" / "if self.bucket_name_prefix" take as unset
NoText == << >>
Usernames == {<<"u">>}
Tenants == {NoText, <<"t">>}
BucketNamePrefixes == {NoText, <<"p">>}

\* the sizes of the transferred file: empty, one part, several parts, 2^53 + 1
TransferSizes ==
    {Small(0), Small(1), Small(MaxFileSize),
     Big(2 ^ (SignificandBits - LimbBits), 1)}

\* bucket_name = username, with the prefix in front if one is configured
BucketName(username, bucket_name_prefix) ==
    IF bucket_name_prefix # NoText THEN bucket_name_prefix \o username ELSE username

NoParams == [Bucket |-> NoText, Key |-> 0, UploadId |-> None, PartNumber |-> 0]
Params(bucket, key, upload_id, part_number) ==
    [Bucket |-> bucket, Key |-> key, UploadId |-> upload_id, PartNumber |-> part_number]

NoUrl == [client |-> None, ClientMethod |-> None, Params |-> NoParams]

\* _generate_presigned_url: the tenant goes in front of the Bucket parameter
_generate_presigned_url(client, action, params, tenant) ==
    [client |-> client, ClientMethod |-> action,
     Params |-> IF tenant # NoText
                THEN [params EXCEPT !.Bucket = tenant \o <<":">> \o @]
                ELSE params]

\* a list of URLs: its length and, unless it is too long to write out, its elements
NoUrls == [len |-> Small(0), listed |-> << >>]
Listable(count) == count.hi = 0

\* for part_number in range(1, count + 1): append(_generate_presigned_url(...))
PartUrls(client, bucket, key, upload_id, tenant, count) ==
    [len |-> count,
     listed |-> IF Listable(count)
                THEN [part_number \in 1..count.lo |->
                        _generate_presigned_url(client, "upload_part",
                            Params(bucket, key, upload_id, part_number), tenant)]
                ELSE << >>]

\* a call made on a collaborator (a storage client, the scheduler, the ssh client):
\* its method, for generate_presigned_url the ClientMethod, and the bucket it names
Request(client, method, bucket) ==
    [client |-> client, method |-> method, Bucket |-> bucket, response |-> "ok"]

NoOperation == [job_id |-> 0, working_directory |-> << >>, partsUploadUrls |-> NoUrls,
                completeUploadUrl |-> NoUrl, download_url |-> NoUrl]

\* the S3Datatransfer object (tenant, bucket_name_prefix, max_part_size, work_dir)
\* and the locals of its running operation
NoRun(tenant, bucket_name_prefix, max_part_size) ==
    [tenant |-> tenant, bucket_name_prefix |-> bucket_name_prefix,
     max_part_size |-> max_part_size, work_dir |-> PathS,
     pc |-> "idle", op |-> None, n |-> 0, username |-> NoText, file_size |-> Small(0),
     bucket_name |-> NoText, object_name |-> 0, upload_id |-> None, created |-> NoText,
     post_urls |-> NoUrls, complete_url |-> NoUrl, get_url |-> NoUrl, head_url |-> NoUrl,
     job_id |-> 0, requests |-> << >>, error |-> None, failed_at |-> None,
     returned |-> NoOperation]

\* the operation raises: the error goes to the caller, nothing else is done
Fail(error) ==
    [run EXCEPT !.pc = "failed", !.error = error, !.failed_at = run.pc]

\* the call is on record with what it answered: "ok", or the error it raised
Sent(r, request) ==
    [r EXCEPT !.requests = Append(@, [request EXCEPT !.response =
                  IF r.pc = "failed" THEN r.error ELSE "ok"])]
Answered(r, request, response) ==
    [r EXCEPT !.requests = Append(@, [request EXCEPT !.response = response])]

StartUpload_SkipEnsure(username, file_size) ==
    /\ run.pc = "idle"
    /\ run.n < MaxTransfers
    /\ run' = [NoRun(run.tenant, run.bucket_name_prefix, run.max_part_size) EXCEPT
                  !.pc = "multipart", !.op = "upload", !.n = run.n + 1,
                  !.username = username, !.file_size = file_size,
                  !.object_name = run.n + 1,
                  !.bucket_name = BucketName(username, run.bucket_name_prefix)]
    /\ UNCHANGED <<healthVars, poolVars, admission, transfer, buckets, lifecycle, jobs,
                   authVars, serviceVars>>

\* upload(source, target, username, ...): lines 92-96
StartUpload(username, file_size) ==
    /\ run.pc = "idle"
    /\ run.n < MaxTransfers
    /\ run' = [NoRun(run.tenant, run.bucket_name_prefix, run.max_part_size) EXCEPT
                  !.pc = "create", !.op = "upload", !.n = run.n + 1,
                  !.username = username, !.file_size = file_size,
                  !.object_name = run.n + 1,
                  !.bucket_name = BucketName(username, run.bucket_name_prefix)]
    /\ UNCHANGED <<healthVars, poolVars, admission, transfer, buckets, lifecycle, jobs,
                   authVars, serviceVars>>

\* download(source, target, username, ...): lines 210-214
StartDownload(username) ==
    /\ run.pc = "idle"
    /\ run.n < MaxTransfers
    /\ run' = [NoRun(run.tenant, run.bucket_name_prefix, run.max_part_size) EXCEPT
                  !.pc = "stat", !.op = "download", !.n = run.n + 1,
                  !.username = username,
                  !.bucket_name = BucketName(username, run.bucket_name_prefix)]
    /\ UNCHANGED <<healthVars, poolVars, admission, transfer, buckets, lifecycle, jobs,
                   authVars, serviceVars>>

Stat_IgnoreFailure(fault, size) ==
    /\ run.pc = "stat"
    /\ run' = Answered([run EXCEPT !.pc = "create", !.file_size = size,
                                   !.object_name = run.n],
                       Request("ssh", "execute", NoText),
                       IF fault THEN "StatError" ELSE "ok")
    /\ UNCHANGED <<healthVars, poolVars, admission, transfer, buckets, lifecycle, jobs,
                   authVars, serviceVars>>

\* stat_output = await client.execute(stat); the object name is made after it
Stat(fault, size) ==
    /\ run.pc = "stat"
    /\ run' = Sent(IF fault THEN Fail("StatError")
                   ELSE [run EXCEPT !.pc = "create", !.file_size = size,
                                    !.object_name = run.n],
                   Request("ssh", "execute", NoText))
    /\ UNCHANGED <<healthVars, poolVars, admission, transfer, buckets, lifecycle, jobs,
                   authVars, serviceVars>>

\* the bucket create_bucket is called with: bucket_name in upload, username in download
CreatedBucket == IF run.op = "download" THEN run.username ELSE run.bucket_name

CreateBucket_SwallowAll(fault) ==
    /\ run.pc = "create"
    /\ LET request == Request("private", "create_bucket", CreatedBucket)
       IN  IF fault
           THEN run' = Answered([run EXCEPT !.pc = "multipart"], request, "BucketError")
                /\ UNCHANGED buckets
           ELSE IF CreatedBucket \in buckets
           THEN run' = Answered([run EXCEPT !.pc = "multipart"], request,
                                "BucketAlreadyOwnedByYou")
                /\ UNCHANGED buckets
           ELSE /\ run' = Sent([run EXCEPT !.pc = "lifecycle", !.created = CreatedBucket],
                               request)
                /\ buckets' = buckets \cup {CreatedBucket}
    /\ UNCHANGED <<healthVars, poolVars, admission, transfer, lifecycle, jobs, authVars, serviceVars>>

\* await create_bucket(Bucket=...) inside try / except BucketAlreadyOwnedByYou: pass
CreateBucket(fault) ==
    /\ run.pc = "create"
    /\ LET request == Request("private", "create_bucket", CreatedBucket)
       IN  IF fault
           THEN run' = Sent(Fail("BucketError"), request) /\ UNCHANGED buckets
           ELSE IF CreatedBucket \in buckets
           THEN run' = Answered([run EXCEPT !.pc = "multipart"], request,
                                "BucketAlreadyOwnedByYou")
                /\ UNCHANGED buckets
           ELSE /\ run' = Sent([run EXCEPT !.pc = "lifecycle", !.created = CreatedBucket],
                               request)
                /\ buckets' = buckets \cup {CreatedBucket}
    /\ UNCHANGED <<healthVars, poolVars, admission, transfer, lifecycle, jobs, authVars, serviceVars>>

\* await put_bucket_lifecycle_configuration(Bucket=bucket_name, ...), same try
PutLifecycle(fault) ==
    /\ run.pc = "lifecycle"
    /\ LET request == Request("private", "put_bucket_lifecycle_configuration",
                              run.bucket_name)
       IN  IF fault
           THEN run' = Sent(Fail("StorageError"), request) /\ UNCHANGED lifecycle
           ELSE IF run.bucket_name \notin buckets
           THEN run' = Sent(Fail("NoSuchBucket"), request) /\ UNCHANGED lifecycle
           ELSE /\ run' = Sent([run EXCEPT !.pc = "multipart"], request)
                /\ lifecycle' = Append(lifecycle, [Bucket |-> run.bucket_name,
                                                   created |-> run.created,
                                                   n |-> run.n])
    /\ UNCHANGED <<healthVars, poolVars, admission, transfer, buckets, jobs, authVars, serviceVars>>

\* upload_id = (await create_multipart_upload(Bucket=bucket_name, Key=object_name))["UploadId"]
CreateMultipart(fault) ==
    /\ run.pc = "multipart"
    /\ LET request == Request("private", "create_multipart_upload", run.bucket_name)
       IN  run' = Sent(IF fault THEN Fail("StorageError")
                       ELSE IF run.bucket_name \notin buckets THEN Fail("NoSuchBucket")
                       ELSE [run EXCEPT !.pc = "parts", !.upload_id = "UploadId"],
                       request)
    /\ UNCHANGED <<healthVars, poolVars, admission, transfer, buckets, lifecycle, jobs,
                   authVars, serviceVars>>

PartClient_AlwaysPublic == "public"

\* the client the part and completion URLs are signed by
PartClient == IF run.op = "upload" THEN "public" ELSE "private"

\* the loop over range(1, ceil(size / max_part_size) + 1); a fault is the failure of
\* one of its calls, so there is none when the range is empty
IssueParts(fault) ==
    /\ run.pc = "parts"
    /\ LET count == PartCount(run.file_size, run.max_part_size)
           urls == PartUrls(PartClient, run.bucket_name, run.object_name, run.upload_id,
                            run.tenant, count)
           request == Request(PartClient, "upload_part",
                              _generate_presigned_url(PartClient, "upload_part",
                                  Params(run.bucket_name, run.object_name, run.upload_id, 1),
                                  run.tenant).Params.Bucket)
       IN  /\ fault => ~IsZero(count)
           /\ run' = IF fault THEN Sent(Fail("StorageError"), request)
                     ELSE IF IsZero(count) THEN [run EXCEPT !.pc = "complete", !.post_urls = urls]
                     ELSE Sent([run EXCEPT !.pc = "complete", !.post_urls = urls], request)
    /\ UNCHANGED <<healthVars, poolVars, admission, transfer, buckets, lifecycle, jobs,
                   authVars, serviceVars>>

\* the complete_multipart_upload URL
IssueComplete(fault) ==
    /\ run.pc = "complete"
    /\ LET url == _generate_presigned_url(PartClient, "complete_multipart_upload",
                      Params(run.bucket_name, run.object_name, run.upload_id, 0), run.tenant)
           request == Request(PartClient, "complete_multipart_upload", url.Params.Bucket)
       IN  run' = Sent(IF fault THEN Fail("StorageError")
                       ELSE [run EXCEPT !.complete_url = url,
                                        !.pc = IF run.op = "upload" THEN "get" ELSE "submit"],
                       request)
    /\ UNCHANGED <<healthVars, poolVars, admission, transfer, buckets, lifecycle, jobs,
                   authVars, serviceVars>>

\* what upload / download hand back: S3DataTransferOperation(transferJob, transfer_directives)
Operation(r) ==
    [job_id |-> r.job_id,
     working_directory |-> r.work_dir \o <<"/">> \o r.username,
     partsUploadUrls |-> IF r.op = "upload" THEN r.post_urls ELSE NoUrls,
     completeUploadUrl |-> IF r.op = "upload" THEN r.complete_url ELSE NoUrl,
     download_url |-> IF r.op = "download" THEN r.get_url ELSE NoUrl]

\* the get_object URL: upload signs it with the private client before the job is
\* submitted, download with the public client after it and then returns
IssueGet(fault) ==
    /\ run.pc = "get"
    /\ LET client == IF run.op = "upload" THEN "private" ELSE "public"
           url == _generate_presigned_url(client, "get_object",
                      Params(run.bucket_name, run.object_name, None, 0), run.tenant)
           request == Request(client, "get_object", url.Params.Bucket)
           issued == [run EXCEPT !.get_url = url]
       IN  run' = Sent(IF fault THEN Fail("StorageError")
                       ELSE IF run.op = "upload" THEN [issued EXCEPT !.pc = "head"]
                       ELSE [issued EXCEPT !.pc = "returned",
                                           !.returned = Operation(issued)],
                       request)
    /\ UNCHANGED <<healthVars, poolVars, admission, transfer, buckets, lifecycle, jobs,
                   authVars, serviceVars>>

\* the head_object URL of upload
IssueHead(fault) ==
    /\ run.pc = "head"
    /\ LET url == _generate_presigned_url("private", "head_object",
                      Params(run.bucket_name, run.object_name, None, 0), run.tenant)
           request == Request("private", "head_object", url.Params.Bucket)
       IN  run' = Sent(IF fault THEN Fail("StorageError")
                       ELSE [run EXCEPT !.head_url = url, !.pc = "submit"],
                       request)
    /\ UNCHANGED <<healthVars, poolVars, admission, transfer, buckets, lifecycle, jobs,
                   authVars, serviceVars>>

\* JobHelper(f"{self.work_dir}/{username}", script, name) with the script's parameters
Job(r) ==
    [n |-> r.n,
     working_dir |-> r.work_dir \o <<"/">> \o r.username,
     job_name |-> IF r.op = "upload" THEN "IngressFileTransfer" ELSE "OutgressFileTransfer",
     download_head_url |-> r.head_url,
     download_url |-> r.get_url,
     F7T_MP_PARTS_URL |-> IF r.op = "download" THEN r.post_urls ELSE NoUrls,
     F7T_MP_NUM_PARTS |-> IF r.op = "download" THEN r.post_urls.len ELSE Small(0),
     F7T_MP_COMPLETE_URL |-> IF r.op = "download" THEN r.complete_url ELSE NoUrl]

SubmitJob_Retry(fault) ==
    /\ run.pc = "submit"
    /\ LET request == Request("scheduler", "submit_job", NoText)
           tried == IF fault THEN Answered(run, request, "SubmitError") ELSE run
           submitted == [tried EXCEPT !.job_id = Len(jobs) + 1]
       IN  /\ jobs' = Append(jobs, Job(run))
           /\ run' = Sent(IF run.op = "upload"
                          THEN [submitted EXCEPT !.pc = "returned",
                                                 !.returned = Operation(submitted)]
                          ELSE [submitted EXCEPT !.pc = "get"],
                          request)
    /\ UNCHANGED <<healthVars, poolVars, admission, transfer, buckets, lifecycle, authVars, serviceVars>>

\* job_id = await self.scheduler_client.submit_job(...): upload returns after it
SubmitJob(fault) ==
    /\ run.pc = "submit"
    /\ LET request == Request("scheduler", "submit_job", NoText)
           submitted == [run EXCEPT !.job_id = Len(jobs) + 1]
       IN  IF fault
           THEN run' = Sent(Fail("SubmitError"), request) /\ UNCHANGED jobs
           ELSE /\ jobs' = Append(jobs, Job(run))
                /\ run' = Sent(IF run.op = "upload"
                               THEN [submitted EXCEPT !.pc = "returned",
                                                      !.returned = Operation(submitted)]
                               ELSE [submitted EXCEPT !.pc = "get"],
                               request)
    /\ UNCHANGED <<healthVars, poolVars, admission, transfer, buckets, lifecycle, authVars, serviceVars>>

\* the caller has the operation's result or its error; the next operation may start
Finish ==
    /\ run.pc \in {"returned", "failed"}
    /\ run' = [NoRun(run.tenant, run.bucket_name_prefix, run.max_part_size) EXCEPT
                  !.n = run.n]
    /\ UNCHANGED <<healthVars, poolVars, admission, transfer, buckets, lifecycle, jobs,
                   authVars, serviceVars>>

(***************************************************************************)
(* OIDCTokenAuth                                                           *)
(***************************************************************************)

(* A JWK is the dict of its fields, an absent field being None; a token is *)
(* what the checks of python-jose can tell about it.                       *)
Identifiers == {"k1", "k2", "x1"}

\* "not algorithm", "kid or x5t": None and the empty string count as absent
Absent(v) == v \in {None, ""}

JWK(kid, x5t, alg, kty, crv, material) ==
    [kid |-> kid, x5t |-> x5t, alg |-> alg, kty |-> kty, crv |-> crv,
     material |-> material]

\* algo_map; key.get("kty", "None") and key.get("crv", "None") make an absent
\* field the text "None", which the EC table has an entry for
algo_map ==
    [RSA |-> [str |-> TRUE, value |-> "RS256", table |-> [c \in {} |-> ""]],
     oct |-> [str |-> TRUE, value |-> "HS256", table |-> [c \in {} |-> ""]],
     EC  |-> [str |-> FALSE, value |-> "",
              table |-> [c \in {"None", "P-256", "P-384", "P-521", "secp256k1"} |->
                            CASE c = "None" -> "ES256"
                              [] c = "P-256" -> "ES256"
                              [] c = "P-384" -> "ES384"
                              [] c = "P-521" -> "ES512"
                              [] c = "secp256k1" -> "ES256K"]],
     OKP |-> [str |-> FALSE, value |-> "",
              table |-> [c \in {"Ed25519"} |-> "EdDSA"]]]

\* the try block of lines 60-68: the algorithm, or the ValueError
Detect(kty, crv) ==
    IF kty \notin DOMAIN algo_map THEN "ValueError"
    ELSE IF algo_map[kty].str THEN algo_map[kty].value
    ELSE IF crv \notin DOMAIN algo_map[kty].table THEN "ValueError"
    ELSE algo_map[kty].table[crv]

Algorithm_OverrideFirst(key, jwk_algorithm) ==
    IF ~Absent(jwk_algorithm) THEN jwk_algorithm
    ELSE IF ~Absent(key.alg) THEN key.alg
    ELSE Detect(key.kty, key.crv)

\* lines 45-68: the algorithm a key is constructed with, or the ValueError
Algorithm(key, jwk_algorithm) ==
    IF ~Absent(key.alg) THEN key.alg
    ELSE IF ~Absent(jwk_algorithm) THEN jwk_algorithm
    ELSE Detect(key.kty, key.crv)

\* identifier = key.get("kid", None) or key.get("x5t", None)
Identifier(header) == IF ~Absent(header.kid) THEN header.kid ELSE header.x5t

\* jwk.construct(key, algorithm=algorithm)
NoKey == [algorithm |-> None, material |-> None]
Construct(key, algorithm) == [algorithm |-> algorithm, material |-> key.material]

NoKeys == [identifier \in Identifiers |-> NoKey]

\* the loop of lines 43-71 over the fetched keys: the cache it leaves, and the error
\* it raised if it did not get to the end
RECURSIVE LoadKeys(_, _, _)
LoadKeys(keys, cache, jwk_algorithm) ==
    IF keys = << >> THEN [public_keys |-> cache, error |-> None]
    ELSE LET key == Head(keys)
             identifier == Identifier(key)
             algorithm == Algorithm(key, jwk_algorithm)
         IN  IF algorithm = "ValueError"
             THEN [public_keys |-> cache, error |-> "ValueError"]
             ELSE LoadKeys(Tail(keys),
                           IF ~Absent(identifier)
                           THEN [cache EXCEPT ![identifier] = Construct(key, algorithm)]
                           ELSE cache,
                           jwk_algorithm)

NoToken == [wellformed |-> FALSE, kid |-> None, x5t |-> None, signature |-> None,
            expired |-> FALSE, aud_ok |-> FALSE, active |-> FALSE]

Tokens ==
    [wellformed : BOOLEAN, kid : {None, "k1", "k2"}, x5t : {None, "x1"},
     signature : {"m1", "m2"}, expired : BOOLEAN, aud_ok : BOOLEAN, active : BOOLEAN]

\* what a call hands back: a value, or an exception with its class and detail
NoOutcome == [kind |-> "none", exception |-> None, detail |-> None, active |-> FALSE]
Raise(exception, detail) ==
    [kind |-> "raised", exception |-> exception, detail |-> detail, active |-> FALSE]

\* ApiAuthModel.build_from_oidc_decoded_token(...): the identity, with its active flag
BuildIdentity(token) ==
    [kind |-> "returned", exception |-> None, detail |-> None, active |-> token.active]

\* auth_from_token: header, key lookup, then jwt.decode, which verifies the
\* signature, then the expiry, then the audience if one is configured
auth_from_token(token, cache, audience) ==
    IF ~token.wellformed THEN Raise("JWTError", None)
    ELSE LET identifier == Identifier(token)
         IN  IF identifier \notin DOMAIN cache \/ cache[identifier] = NoKey
             THEN Raise("KeyError", None)
             ELSE IF token.signature # cache[identifier].material
             THEN Raise("JWTError", None)
             ELSE IF token.expired THEN Raise("ExpiredSignatureError", None)
             ELSE IF ~Absent(audience) /\ ~token.aud_ok THEN Raise("JWTClaimsError", None)
             ELSE BuildIdentity(token)

\* the classes an except clause catches: ExpiredSignatureError and JWTClaimsError
\* derive from JWTError
Caught(class) ==
    IF class = "JWTError" THEN {"JWTError", "ExpiredSignatureError", "JWTClaimsError"}
    ELSE {class}

ExceptClauses_InvalidFirst ==
    << [class |-> "JWTError", detail |-> "Access token is invalid."],
       [class |-> "ExpiredSignatureError", detail |-> "Access token expired"],
       [class |-> "KeyError", detail |-> "Token's public key not found."] >>

\* the except clauses of authenticate, in their order
ExceptClauses ==
    << [class |-> "ExpiredSignatureError", detail |-> "Access token expired"],
       [class |-> "JWTError", detail |-> "Access token is invalid."],
       [class |-> "KeyError", detail |-> "Token's public key not found."] >>

\* the first clause that catches the exception turns it into its HTTPException
Handle(raised_outcome) ==
    LET catching == {i \in 1..Len(ExceptClauses) :
                        raised_outcome.exception \in Caught(ExceptClauses[i].class)}
    IN  IF catching = {} THEN raised_outcome
        ELSE LET first == CHOOSE i \in catching : \A j \in catching : i <= j
             IN  Raise("HTTPException", ExceptClauses[first].detail)

authenticate_NoActiveCheck(token, cache, audience) ==
    LET auth == auth_from_token(token, cache, audience)
    IN  IF auth.kind = "raised" THEN Handle(auth) ELSE auth

\* authenticate: lines 88-115
authenticate(token, cache, audience) ==
    LET auth == auth_from_token(token, cache, audience)
    IN  IF auth.kind = "raised" THEN Handle(auth)
        ELSE IF ~auth.active THEN Handle(Raise("HTTPException", "Inactive authentication"))
        ELSE auth

NoAuthn == [pc |-> "new", jwk_algorithm |-> None, audience |-> None, keys |-> << >>,
            error |-> None, token |-> NoToken, outcome |-> NoOutcome]

\* the key types, curves and declared algorithms of the fetched keys
KeyTypes == {None, "RSA", "oct", "EC", "OKP", "dsa"}
Curves == {None, "P-256", "P-384", "P-521", "secp256k1", "Ed25519", "X25519"}
Algorithms == {None, "", "RS512"}

\* the lists of keys the certificate endpoints hand out: none; one key of every kind;
\* two keys, with and without identifiers, the second with a new identifier, with the
\* identifier of the first, or with none and of an unknown type
KeyLists ==
    {<< >>}
    \cup {<<JWK("k1", None, a, t, c, "m1")>> : a \in Algorithms, t \in KeyTypes, c \in Curves}
    \cup {<<JWK(kid, x5t, None, "RSA", None, "m1"), second>> :
             kid \in {None, "", "k1"}, x5t \in {None, "x1"},
             second \in {JWK("k2", None, None, "EC", "P-384", "m2"),
                         JWK("k1", None, "RS512", "dsa", None, "m2"),
                         JWK(None, None, None, "dsa", None, "m2")}}

\* OIDCTokenAuth(public_certs, username_claim, jwk_algorithm, audience): lines 43-71
__init__ ==
    /\ authn.pc = "new"
    /\ LET loaded == LoadKeys(authn.keys, public_keys, authn.jwk_algorithm)
       IN  /\ public_keys' = loaded.public_keys
           /\ authn' = [authn EXCEPT !.pc = IF loaded.error = None THEN "ready" ELSE "failed",
                                     !.error = loaded.error]
    /\ UNCHANGED <<healthVars, poolVars, admission, transfer, transferVars, serviceVars>>

\* await authenticate(access_token)
Authenticate(token) ==
    /\ authn.pc = "ready"
    /\ authn' = [authn EXCEPT !.pc = "answered", !.token = token,
                    !.outcome = authenticate(token, public_keys, authn.audience)]
    /\ UNCHANGED <<healthVars, poolVars, admission, transfer, transferVars, public_keys,
                   serviceVars>>

\* the request is over; the verifier serves the next one
AuthReturn ==
    /\ authn.pc = "answered"
    /\ authn' = [authn EXCEPT !.pc = "ready", !.token = NoToken, !.outcome = NoOutcome]
    /\ UNCHANGED <<healthVars, poolVars, admission, transfer, transferVars, public_keys,
                   serviceVars>>

(***************************************************************************)
(* DataTransferDependency                                                  *)
(***************************************************************************)
NoBackend == [system_name |-> None, pc |-> "none", outcome |-> None, work_dir |-> NoPath]

\* the filesystems cluster a may be configured with: the first one marked, the second
\* one only, both, none
Deployments ==
    {[a |-> << [path |-> PathS, default_work_dir |-> first],
               [path |-> PathH, default_work_dir |-> second] >>,
      b |-> << >>] : first \in BOOLEAN, second \in BOOLEAN}

\* next(iter([fs.path for fs in system.file_systems if fs.default_work_dir]), None)
RECURSIVE DefaultWorkDir(_)
DefaultWorkDir(fs) ==
    IF fs = << >> THEN NoPath
    ELSE IF Head(fs).default_work_dir THEN Head(fs).path
    ELSE DefaultWorkDir(Tail(fs))

\* if not work_dir
NoWorkDir(work_dir) == work_dir \in {NoPath, << >>}

\* SSHClientDependency(ignore_health=False)(system_name), run to its end while nobody
\* else holds the lock: past the gate, the pool is in the registry afterwards
SshClient(system_name, admitted) ==
    IF admitted /\ ~InRegistry(system_name)
    THEN /\ constructed' = [constructed EXCEPT ![system_name] = @ + 1]
         /\ client_pools' = [client_pools EXCEPT ![system_name] =
                                [system_name |-> system_name,
                                 serial |-> constructed[system_name] + 1]]
    ELSE UNCHANGED <<client_pools, constructed>>

\* a resolution that fetches the SSH client before it looks at the scheduler
ResolveSchedulerClient_PoolFirst(system_name) ==
    /\ backend = NoBackend
    /\ LockFree
    /\ LET scheduler == ServiceAvailability(system_name, "scheduler", FALSE, NoPath,
                                            servicesHealth)
           ssh == ServiceAvailability(system_name, "ssh", FALSE, NoPath, servicesHealth)
           outcome == IF ssh # "ok" THEN ssh ELSE scheduler
       IN  /\ backend' = IF outcome = "ok"
                         THEN [NoBackend EXCEPT !.system_name = system_name,
                                                !.pc = "ssh_client"]
                         ELSE [NoBackend EXCEPT !.system_name = system_name,
                                                !.pc = "done", !.outcome = outcome]
           /\ SshClient(system_name, ssh = "ok")
    /\ UNCHANGED <<healthVars, lock, pruned, pc, call, result, admission, transfer,
                   transferVars, authVars, oidc, verifiers, construction, verified>>

\* line 356, _get_scheduler_client: the scheduler gate, then the SSH client of the
\* scheduler client
ResolveSchedulerClient(system_name) ==
    /\ backend = NoBackend
    /\ LockFree
    /\ LET scheduler == ServiceAvailability(system_name, "scheduler", FALSE, NoPath,
                                            servicesHealth)
           ssh == ServiceAvailability(system_name, "ssh", FALSE, NoPath, servicesHealth)
           outcome == IF scheduler # "ok" THEN scheduler ELSE ssh
       IN  /\ backend' = IF outcome = "ok"
                         THEN [NoBackend EXCEPT !.system_name = system_name,
                                                !.pc = "ssh_client"]
                         ELSE [NoBackend EXCEPT !.system_name = system_name,
                                                !.pc = "done", !.outcome = outcome]
           /\ SshClient(system_name, outcome = "ok")
    /\ UNCHANGED <<healthVars, lock, pruned, pc, call, result, admission, transfer,
                   transferVars, authVars, oidc, verifiers, construction, verified>>

\* line 357, _get_ssh_client
ResolveSshClient ==
    /\ backend.pc = "ssh_client"
    /\ LockFree
    /\ LET outcome == ServiceAvailability(backend.system_name, "ssh", FALSE, NoPath,
                                          servicesHealth)
       IN  /\ backend' = IF outcome = "ok" THEN [backend EXCEPT !.pc = "system"]
                         ELSE [backend EXCEPT !.pc = "done", !.outcome = outcome]
           /\ SshClient(backend.system_name, outcome = "ok")
    /\ UNCHANGED <<healthVars, lock, pruned, pc, call, result, admission, transfer,
                   transferVars, authVars, oidc, verifiers, construction, verified>>

\* lines 359-416: the scheduler gate once more, the work dir, the orchestrator
ResolveWorkDir ==
    /\ backend.pc = "system"
    /\ LET outcome == ServiceAvailability(backend.system_name, "scheduler", FALSE, NoPath,
                                          servicesHealth)
           work_dir == DefaultWorkDir(file_systems[backend.system_name])
       IN  backend' = IF outcome # "ok"
                      THEN [backend EXCEPT !.pc = "done", !.outcome = outcome]
                      ELSE IF NoWorkDir(work_dir)
                      THEN [backend EXCEPT !.pc = "done", !.outcome = "ValueError"]
                      ELSE [backend EXCEPT !.pc = "done", !.outcome = "returned",
                                           !.work_dir = work_dir]
    /\ UNCHANGED <<healthVars, poolVars, admission, transfer, transferVars, authVars,
                   oidc, verifiers, construction, verified>>

\* the request is over
ResolveReturn ==
    /\ backend.pc = "done"
    /\ backend' = NoBackend
    /\ UNCHANGED <<healthVars, poolVars, admission, transfer, transferVars, authVars,
                   oidc, verifiers, construction, verified>>

(***************************************************************************)
(* The verifiers of one process                                            *)
(***************************************************************************)

(* Every OIDCTokenAuth object reads and writes the one dict of the class,  *)
(* public_keys (line 21). APIAuthDependency builds its verifier once, with *)
(* public_certs and username_claim only; every ClusterHealthChecker that   *)
(* is given no token_decoder builds its own, with all four settings.       *)
Owners == {"api", "health"}

NoOidc == [jwk_algorithm |-> None, audience |-> None]
OidcSettings == [jwk_algorithm : {None, "ES384"}, audience : {None, "aud"}]

\* settings.auth.authentication.public_certs, and what one GET of each endpoint
\* may give: no usable answer (NoList) or a key list. The first endpoint rotates its
\* key; the second lists a key of its own, a key without identifier, or a key of a
\* type the table does not have
public_certs == <<"u1", "u2">>

EndpointAnswers ==
    << {NoList,
        List(<<JWK("k1", None, None, "RSA", None, "m1")>>),
        List(<<JWK("k1", None, None, "RSA", None, "m2")>>)},
       {NoList,
        List(<<JWK("k2", None, None, "EC", "P-384", "m2")>>),
        List(<<JWK(None, None, None, "RSA", None, "m2")>>),
        List(<<JWK("k2", None, None, "dsa", None, "m2")>>)} >>

Answers == {<<first, second>> : first \in EndpointAnswers[1], second \in EndpointAnswers[2]}

\* lines 29-41: the keys of the endpoints that answered, in the order of public_certs
RECURSIVE Fetch(_)
Fetch(answers) ==
    IF answers = << >> THEN << >>
    ELSE (IF Head(answers).list THEN Head(answers).items ELSE << >>) \o Fetch(Tail(answers))

NoVerifier == [pc |-> "none", jwk_algorithm |-> None, audience |-> None]
NoConstruction == [owner |-> None, answers |-> << >>, before |-> NoKeys, error |-> None]
NoVerify == [owner |-> None, token |-> NoToken, outcome |-> NoOutcome]

\* OIDCTokenAuth(public_certs, username_claim, jwk_algorithm, audience): the object,
\* the dict of the class as the key loop leaves it, and the error raised, if any
OIDCTokenAuth(answers, jwk_algorithm, audience) ==
    LET loaded == LoadKeys(Fetch(answers), public_keys, jwk_algorithm)
    IN  [self |-> [pc |-> "ready", jwk_algorithm |-> jwk_algorithm, audience |-> audience],
         public_keys |-> loaded.public_keys,
         error |-> loaded.error]

\* APIAuthDependency(): the first call builds globalAuthN; a call that raised has
\* set no attribute, so that the next one builds again
APIAuthDependency(answers) ==
    /\ verifiers["api"].pc = "none"
    /\ LET new == OIDCTokenAuth(answers, None, None)
       IN  /\ public_keys' = new.public_keys
           /\ verifiers' = IF new.error = None THEN [verifiers EXCEPT !["api"] = new.self]
                           ELSE verifiers
           /\ construction' = [owner |-> "api", answers |-> answers,
                               before |-> public_keys, error |-> new.error]
    /\ UNCHANGED <<healthVars, poolVars, admission, transfer, transferVars, authn, oidc,
                   verified, backend>>

\* ClusterHealthChecker(cluster, token_decoder): a checker given no decoder builds one
\* with the settings; a decoder that is given is used as it is
ClusterHealthChecker(token_decoder, answers) ==
    /\ IF token_decoder = None
       THEN LET new == OIDCTokenAuth(answers, oidc.jwk_algorithm, oidc.audience)
            IN  /\ public_keys' = new.public_keys
                /\ verifiers' = IF new.error = None
                                THEN [verifiers EXCEPT !["health"] = new.self]
                                ELSE verifiers
                /\ construction' = [owner |-> "health", answers |-> answers,
                                    before |-> public_keys, error |-> new.error]
       ELSE /\ verifiers[token_decoder].pc = "ready"
            /\ verifiers[token_decoder] # verifiers["health"]
            /\ verifiers' = [verifiers EXCEPT !["health"] = verifiers[token_decoder]]
            /\ UNCHANGED <<public_keys, construction>>
    /\ UNCHANGED <<healthVars, poolVars, admission, transfer, transferVars, authn, oidc,
                   verified, backend>>

\* the request path: the token of a request goes to globalAuthN.authenticate
RequestToken(token) ==
    /\ verifiers["api"].pc = "ready"
    /\ verified' = [owner |-> "api", token |-> token,
                    outcome |-> authenticate(token, public_keys, verifiers["api"].audience)]
    /\ UNCHANGED <<healthVars, poolVars, admission, transfer, transferVars, authVars, oidc,
                   verifiers, construction, backend>>

\* ClusterHealthChecker.check, line 56: the token of the service account goes to
\* token_decoder.auth_from_token
CheckToken(token) ==
    /\ verifiers["health"].pc = "ready"
    /\ verified' = [owner |-> "health", token |-> token,
                    outcome |-> auth_from_token(token, public_keys,
                                                verifiers["health"].audience)]
    /\ UNCHANGED <<healthVars, poolVars, admission, transfer, transferVars, authVars, oidc,
                   verifiers, construction, backend>>

\* the tokens handed to the verifiers: every well-formed token of an active identity
\* that names its key by kid, and one that cannot be parsed
FleetTokens ==
    {t \in Tokens : /\ t.x5t = None /\ t.kid # None /\ t.active
                    /\ (~t.wellformed => t = [NoToken EXCEPT !.kid = "k1", !.signature = "m1",
                                                             !.active = TRUE])}

(***************************************************************************)
(* Specification of the registry, the gate and the health cycle.           *)
(***************************************************************************)
\* nothing has run: no cycle, no call, no transfer, no verifier
InitCore ==
    /\ file_systems = Deployment
    /\ servicesHealth = [n \in ClusterNames |-> NoList]
    /\ hpc = [n \in ClusterNames |-> "idle"]
    /\ results = [n \in ClusterNames |-> << >>]
    /\ stamp = [n \in ClusterNames |-> 0]
    /\ clock = 0
    /\ raised = [n \in ClusterNames |-> NoObject]
    /\ client_pools = [n \in SystemNames |-> NoObject]
    /\ lock = NoCaller
    /\ constructed = [n \in SystemNames |-> 0]
    /\ pruned = {}
    /\ pc = [c \in Callers |-> "idle"]
    /\ call = [c \in Callers |-> NoCall]
    /\ result = [c \in Callers |-> NoResult]
    /\ admission = NoAdmission

\* an empty storage, an idle scheduler, no operation
InitStorage ==
    /\ buckets = {}
    /\ lifecycle = << >>
    /\ jobs = << >>

InitNoRun == InitStorage /\ run = NoRun(NoText, NoText, 1)

\* no verifier, no transfer backend
InitNoService ==
    /\ oidc = NoOidc
    /\ verifiers = [o \in Owners |-> NoVerifier]
    /\ construction = NoConstruction
    /\ verified = NoVerify
    /\ backend = NoBackend

InitNoAuth == public_keys = NoKeys /\ authn = NoAuthn /\ InitNoService

\* the arguments of the constructor and the keys its endpoints hand out
InitAuth ==
    /\ InitCore
    /\ transfer = NoTransfer
    /\ InitNoRun
    /\ public_keys = NoKeys
    /\ InitNoService
    /\ \E keys \in KeyLists, jwk_algorithm \in {None, "ES384"}, audience \in {None, "aud"} :
          authn = [NoAuthn EXCEPT !.keys = keys, !.jwk_algorithm = jwk_algorithm,
                                  !.audience = audience]

NextAuth ==
    \/ __init__
    \/ \E token \in Tokens : Authenticate(token)
    \/ AuthReturn

SpecAuth == InitAuth /\ [][NextAuth]_vars

\* a process that has built no verifier yet, under every setting of the override and
\* the audience
InitVerifiers ==
    /\ InitCore
    /\ transfer = NoTransfer
    /\ InitNoRun
    /\ public_keys = NoKeys
    /\ authn = NoAuthn
    /\ oidc \in OidcSettings
    /\ verifiers = [o \in Owners |-> NoVerifier]
    /\ construction = NoConstruction
    /\ verified = NoVerify
    /\ backend = NoBackend

NextVerifiers ==
    \/ \E answers \in Answers : APIAuthDependency(answers)
    \/ \E token_decoder \in {None, "api"}, answers \in Answers :
            ClusterHealthChecker(token_decoder, answers)
    \/ \E token \in FleetTokens : RequestToken(token)
    \/ \E token \in FleetTokens : CheckToken(token)

SpecVerifiers == InitVerifiers /\ [][NextVerifiers]_vars

\* the transfer backend resolved request after request while the health checker of
\* cluster a runs, for every marking of a's filesystems
InitBackend ==
    /\ file_systems \in Deployments
    /\ servicesHealth = [n \in ClusterNames |-> NoList]
    /\ hpc = [n \in ClusterNames |-> "idle"]
    /\ results = [n \in ClusterNames |-> << >>]
    /\ stamp = [n \in ClusterNames |-> 0]
    /\ clock = 0
    /\ raised = [n \in ClusterNames |-> NoObject]
    /\ client_pools = [n \in SystemNames |-> NoObject]
    /\ lock = NoCaller
    /\ constructed = [n \in SystemNames |-> 0]
    /\ pruned = {}
    /\ pc = [c \in Callers |-> "idle"]
    /\ call = [c \in Callers |-> NoCall]
    /\ result = [c \in Callers |-> NoResult]
    /\ admission = NoAdmission
    /\ transfer = NoTransfer
    /\ InitNoRun
    /\ InitNoAuth

NextBackend ==
    \/ \E n \in {"a"} : CycleStart(n)
    \/ \E n \in {"a"}, ex \in TokenErrors : TokenFail(n, ex)
    \/ \E n \in {"a"} : TokenOk(n)
    \/ \E n \in {"a"} : \E i \in 1..NumChecks(n), o \in {"ok", "timeout"} :
            ProbeDone(n, i, o)
    \/ \E n \in {"a"} : GatherReturn(n)
    \/ \E n \in SystemNames : ResolveSchedulerClient(n)
    \/ ResolveSshClient
    \/ ResolveWorkDir
    \/ ResolveReturn

SpecBackend == InitBackend /\ [][NextBackend]_vars

Init ==
    /\ InitCore
    /\ transfer = NoTransfer
    /\ InitNoRun
    /\ InitNoAuth

\* the registry under concurrent callers; the periodic job of cluster b fires
Next ==
    \/ \E n \in {"b"} : CycleStart(n)
    \/ \E n \in {"b"}, ex \in TokenErrors : TokenFail(n, ex)
    \/ \E n \in {"b"} : TokenOk(n)
    \/ \E n \in {"b"}, i \in 1..MaxChecks, o \in ProbeOutcomes : ProbeDone(n, i, o)
    \/ \E n \in {"b"} : GatherReturn(n)
    \/ \E c \in Callers, n \in SystemNames, ig \in BOOLEAN : AcquireGate(c, n, ig)
    \/ \E c \in Callers : AcquireLock(c)
    \/ \E c \in Callers : AcquireLookup(c)
    \/ \E c \in Callers : AcquireConstruct(c)
    \/ \E c \in Callers : Return(c)
    \/ PrunePools

Spec == Init /\ [][Next]_vars

\* the acquire calls of the callers while the health checker of cluster b runs
NextFair ==
    \/ \E n \in {"b"} : CycleStart(n)
    \/ \E n \in {"b"} : TokenFail(n, RawException("ConnectTimeout", ""))
    \/ \E n \in {"b"} : TokenOk(n)
    \/ \E n \in {"b"}, i \in 1..MaxChecks, o \in {"ok", "timeout"} : ProbeDone(n, i, o)
    \/ \E n \in {"b"} : GatherReturn(n)
    \/ \E c \in Callers, n \in SystemNames, ig \in BOOLEAN : AcquireGate(c, n, ig)
    \/ \E c \in Callers : AcquireLock(c)
    \/ \E c \in Callers : AcquireLookup(c)
    \/ \E c \in Callers : AcquireConstruct(c)
    \/ \E c \in Callers : Return(c)

\* the registry under fair scheduling: the event loop runs every coroutine that can
\* run (weak fairness of the steps inside the locked region), and asyncio.Lock wakes
\* its waiters in the order they started to wait, so that a caller waiting for the
\* lock is not overtaken for ever (strong fairness of the acquisition)
SpecFair ==
    /\ Init
    /\ [][NextFair]_vars
    /\ \A c \in Callers :
          /\ SF_vars(AcquireLock(c))
          /\ WF_vars(AcquireLookup(c))
          /\ WF_vars(AcquireConstruct(c))

\* the health cycle under direct admission checks; the periodic job of cluster a fires
NextHealth ==
    \/ \E n \in {"a"} : CycleStart(n)
    \/ \E n \in {"a"}, ex \in TokenErrors : TokenFail(n, ex)
    \/ \E n \in {"a"} : TokenOk(n)
    \/ \E n \in {"a"}, i \in 1..MaxChecks, o \in ProbeOutcomes : ProbeDone(n, i, o)
    \/ \E n \in {"a"} : GatherReturn(n)
    \/ \E n \in SystemNames, ig \in BOOLEAN, rq \in AdmissionRequests :
            AdmissionCheck(n, rq.kind, ig, rq.path)
    \/ AdmissionReturn

SpecHealth == Init /\ [][NextHealth]_vars

\* cluster a monitors a filesystem and a directory below it, in either order of
\* its configuration
NestedDeployments ==
    {[a |-> << [path |-> PathS, default_work_dir |-> TRUE],
               [path |-> PathSC, default_work_dir |-> FALSE] >>,
      b |-> << >>],
     [a |-> << [path |-> PathSC, default_work_dir |-> FALSE],
               [path |-> PathS, default_work_dir |-> TRUE] >>,
      b |-> << >>]}

InitNested ==
    /\ file_systems \in NestedDeployments
    /\ servicesHealth = [n \in ClusterNames |-> NoList]
    /\ hpc = [n \in ClusterNames |-> "idle"]
    /\ results = [n \in ClusterNames |-> << >>]
    /\ stamp = [n \in ClusterNames |-> 0]
    /\ clock = 0
    /\ raised = [n \in ClusterNames |-> NoObject]
    /\ client_pools = [n \in SystemNames |-> NoObject]
    /\ lock = NoCaller
    /\ constructed = [n \in SystemNames |-> 0]
    /\ pruned = {}
    /\ pc = [c \in Callers |-> "idle"]
    /\ call = [c \in Callers |-> NoCall]
    /\ result = [c \in Callers |-> NoResult]
    /\ admission = NoAdmission
    /\ transfer = NoTransfer
    /\ InitNoRun
    /\ InitNoAuth

\* filesystem admission checks on cluster a while its health checker runs
NextNested ==
    \/ \E n \in {"a"} : CycleStart(n)
    \/ \E n \in {"a"} : TokenFail(n, RawException("ConnectTimeout", ""))
    \/ \E n \in {"a"} : TokenOk(n)
    \/ \E n \in {"a"} : \E i \in 1..NumChecks(n), o \in {"ok", "timeout"} :
            ProbeDone(n, i, o)
    \/ \E n \in {"a"} : GatherReturn(n)
    \/ \E path \in {PathS, PathSC, PathH} : AdmissionCheck("a", "filesystem", FALSE, path)
    \/ AdmissionReturn

SpecNested == InitNested /\ [][NextNested]_vars

\* the part count of one transfer, for every file size and part size
InitParts ==
    /\ InitCore
    /\ InitNoRun
    /\ InitNoAuth
    /\ \E f \in FileSizes, p \in PartSizes :
          transfer = [file_size |-> f, max_part_size |-> p, op |-> "none",
                      parts |-> Small(0)]

NextParts ==
    \/ UploadParts
    \/ DownloadParts

SpecParts == InitParts /\ [][NextParts]_vars

\* transfers, one after the other, of one S3Datatransfer object
InitTransfer ==
    /\ InitCore
    /\ transfer = NoTransfer
    /\ InitStorage
    /\ InitNoAuth
    /\ \E t \in Tenants, b \in BucketNamePrefixes, p \in PartSizes : run = NoRun(t, b, p)

NextTransfer ==
    \/ \E u \in Usernames, f \in TransferSizes : StartUpload(u, f)
    \/ \E u \in Usernames : StartDownload(u)
    \/ \E fault \in BOOLEAN, f \in TransferSizes : Stat(fault, f)
    \/ \E fault \in BOOLEAN : CreateBucket(fault)
    \/ \E fault \in BOOLEAN : PutLifecycle(fault)
    \/ \E fault \in BOOLEAN : CreateMultipart(fault)
    \/ \E fault \in BOOLEAN : IssueParts(fault)
    \/ \E fault \in BOOLEAN : IssueComplete(fault)
    \/ \E fault \in BOOLEAN : IssueGet(fault)
    \/ \E fault \in BOOLEAN : IssueHead(fault)
    \/ \E fault \in BOOLEAN : SubmitJob(fault)
    \/ Finish

SpecTransfer == InitTransfer /\ [][NextTransfer]_vars

(***************************************************************************)
(* Properties                                                              *)
(***************************************************************************)
\* C1: for every cluster name, under any interleaving of concurrent and sequential
\* acquire calls, the pool is constructed exactly once, and every call that returns
\* a pool returns the one instance the registry holds for that name.
C1_ConstructedOnce ==
    /\ \A n \in SystemNames :
          /\ constructed[n] <= 1
          /\ client_pools[n] # NoObject =>
                constructed[n] = 1 /\ client_pools[n] = [system_name |-> n, serial |-> 1]
    /\ \A c \in Callers :
          result[c].kind = "returned" =>
             /\ IsPool(result[c].value)
             /\ result[c].value = client_pools[call[c].system_name]
             /\ constructed[call[c].system_name] = 1

\* two calls for one name, both answered, with the one pool built for it
C1_Witness ==
    \E c1, c2 \in Callers :
       /\ c1 # c2
       /\ call[c1].system_name = call[c2].system_name
       /\ result[c1].kind = "returned"
       /\ result[c2].kind = "returned"
       /\ result[c1].value = result[c2].value
       /\ constructed[call[c1].system_name] = 1

\* C2: the registry is monotonic: once it maps a name to a pool it maps that name to
\* the same pool after every step (acquire, prune, health cycle).
C2_RegistryMonotonic ==
    [][\A n \in SystemNames :
          client_pools[n] # NoObject => client_pools'[n] = client_pools[n]]_vars

\* a published pool that was pruned, passed a health cycle and was handed out again
C2_Witness ==
    /\ client_pools["b"] # NoObject
    /\ client_pools["b"] \in pruned
    /\ servicesHealth["b"].list
    /\ \E c \in Callers : pc[c] = "done" /\ result[c] = Returned(client_pools["b"])

HoldsUnhealthy(health, kind) ==
    /\ health.list
    /\ \E i \in 1..Len(health.items) :
          /\ IsHealthRecord(health.items[i])
          /\ health.items[i].service_type = kind
          /\ ~health.items[i].healthy

\* the step in which caller c enters SSHClientDependency.__call__
Enters(c) == pc[c] = "idle" /\ pc'[c] # "idle"

\* C3: an acquire call that does not ignore health, for a known cluster whose
\* snapshot holds an unhealthy ssh record, fails with 503, neither constructs nor
\* returns a pool and leaves the registry unchanged.
C3_UnhealthySshRefused ==
    [][\A c \in Callers :
          ( /\ Enters(c)
            /\ ~call'[c].ignore_health
            /\ call'[c].system_name \in ClusterNames
            /\ HoldsUnhealthy(servicesHealth[call'[c].system_name], "ssh") )
          => /\ pc'[c] = "done"
             /\ result'[c] = Raised("503")
             /\ client_pools' = client_pools
             /\ constructed' = constructed]_vars

\* a refused call for a cluster whose pool is already in the registry
C3_Witness ==
    \E c \in Callers :
       /\ pc[c] = "done"
       /\ result[c] = Raised("503")
       /\ ~call[c].ignore_health
       /\ call[c].system_name = "b"
       /\ HoldsUnhealthy(servicesHealth["b"], "ssh")
       /\ client_pools["b"] # NoObject

\* C4: an admission check or an acquire call for a name that is not configured
\* fails with 404 (not 428, not 503) in every snapshot state and for every
\* ignore_health setting, and leaves the registry unchanged.
C4_UnknownNotFound ==
    [][/\ \A n \in SystemNames \ ClusterNames, ig \in BOOLEAN, rq \in AdmissionRequests :
             ServiceAvailability(n, rq.kind, ig, rq.path, servicesHealth) = "404"
       /\ \A c \in Callers :
             (Enters(c) /\ call'[c].system_name \notin ClusterNames)
             => /\ pc'[c] = "done"
                /\ result'[c] = Raised("404")
                /\ client_pools' = client_pools
                /\ constructed' = constructed]_vars

\* a call that ignores health, for the unknown name, refused while a snapshot is there
C4_Witness ==
    \E c \in Callers :
       /\ pc[c] = "done"
       /\ call[c].system_name = "x"
       /\ call[c].ignore_health
       /\ result[c] = Raised("404")
       /\ servicesHealth["b"].list
       /\ client_pools["x"] = NoObject

\* the records of a snapshot that serve (kind, path)
Serving(kind, path, health) ==
    IF ~health.list THEN {}
    ELSE {i \in 1..Len(health.items) :
             /\ health.items[i].service_type = kind
             /\ (kind = "filesystem" =>
                    /\ path # NoPath
                    /\ Len(health.items[i].path) <= Len(path)
                    /\ SubSeq(path, 1, Len(health.items[i].path)) = health.items[i].path)}

\* the step of a direct admission check
Checked == admission = NoAdmission /\ admission' # NoAdmission

\* C5, as claimed: for a known cluster and a kind in {scheduler, ssh, filesystem},
\* health not ignored, the snapshot alone decides among three outcomes: no matching
\* record 428, a matching unhealthy record 503, a matching healthy record success.
C5_ThreeOutcomes ==
    [][( /\ Checked
         /\ admission'.system_name \in ClusterNames
         /\ ~admission'.ignore_health )
       => LET health == servicesHealth[admission'.system_name]
              serving == Serving(admission'.kind, admission'.path, health)
          IN  /\ serving = {} => admission'.outcome = "428"
              /\ (\E i \in serving : ~health.items[i].healthy) => admission'.outcome = "503"
              /\ (\E i \in serving : health.items[i].healthy) => admission'.outcome = "ok"]_vars

\* C5, amended: a filesystem check whose request carries no path fails with 400
\* whatever the snapshot; every other check has the three outcomes, decided by the
\* first matching record of the snapshot.
C5_AdmissionOutcomes ==
    [][( /\ Checked
         /\ admission'.system_name \in ClusterNames
         /\ ~admission'.ignore_health )
       => LET health == servicesHealth[admission'.system_name]
              serving == Serving(admission'.kind, admission'.path, health)
              first == CHOOSE i \in serving : \A j \in serving : i <= j
          IN  admission'.outcome =
                 IF admission'.kind = "filesystem" /\ admission'.path = NoPath THEN "400"
                 ELSE IF serving = {} THEN "428"
                 ELSE IF health.items[first].healthy THEN "ok"
                 ELSE "503"]_vars

\* a filesystem request below the monitored path, refused as unhealthy
C5_Witness ==
    /\ admission.system_name = "a"
    /\ admission.kind = "filesystem"
    /\ admission.path = PathSC
    /\ ~admission.ignore_health
    /\ admission.outcome = "503"

\* what one cycle of a cluster publishes: the record of the except branch, or one
\* record per check, in the order of the checks, all of the same cycle
CompleteSnapshot(cluster, items) ==
    /\ \A i \in 1..Len(items) : IsHealthRecord(items[i])
    /\ \A i \in 1..Len(items) : items[i].last_checked = items[1].last_checked
    /\ \/ Len(items) = 1 /\ items[1].service_type = "exception"
       \/ /\ Len(items) = NumChecks(cluster)
          /\ \A i \in 1..Len(items) : items[i].service_type = Checks(cluster)[i].kind

\* C6: the snapshot is replaced atomically: at every moment, also in the middle of
\* a cycle, the list a reader finds is absent or the complete snapshot of one cycle,
\* never a partly filled list and never records of two cycles.
C6_SnapshotAtomic ==
    \A n \in ClusterNames :
       servicesHealth[n].list => CompleteSnapshot(n, servicesHealth[n].items)

\* a check answered in the middle of the second cycle, from the first one's snapshot
C6_Witness ==
    /\ admission.system_name = "a"
    /\ admission.outcome = "ok"
    /\ hpc["a"] = "gather"
    /\ \E i, j \in 1..Len(results["a"]) :
          results["a"][i] # Pending /\ results["a"][j] = Pending
    /\ servicesHealth["a"].list
    /\ servicesHealth["a"].items[1].last_checked < stamp["a"]

Contains(message, text) == \E i \in 1..Len(message) : message[i] = text

\* C7: a cycle whose token exchange or decoding fails runs no probe, publishes a
\* snapshot of exactly one record, of kind "exception", unhealthy, carrying the class
\* name and the message of the error, and raises that error to its caller.
C7_TokenFailure ==
    [][\A n \in ClusterNames :
          (hpc[n] = "token" /\ hpc'[n] = "idle")
          => LET health == servicesHealth'[n]
                 ex == raised'[n]
             IN  /\ ex \in TokenErrors
                 /\ results'[n] = << >>
                 /\ health.list
                 /\ Len(health.items) = 1
                 /\ IsHealthRecord(health.items[1])
                 /\ health.items[1].service_type = "exception"
                 /\ ~health.items[1].healthy
                 /\ Contains(health.items[1].message, ex.exc_class)
                 /\ ex.exc_msg # "" => Contains(health.items[1].message, ex.exc_msg)]_vars

\* a failed second cycle: its record replaced the snapshot of the first
C7_Witness ==
    /\ hpc["a"] = "idle"
    /\ raised["a"] = RawException("ExpiredSignatureError", "Signature has expired.")
    /\ servicesHealth["a"].list
    /\ servicesHealth["a"].items[1].service_type = "exception"
    /\ servicesHealth["a"].items[1].last_checked = 2

\* C8: once the token step succeeded, a failed probe aborts nothing: the cycle
\* leaves gather() only when every probe is done, publishes one entry per probe
\* and raises nothing.
C8_ProbeFailureIsolated ==
    [][\A n \in ClusterNames :
          (hpc[n] = "gather" /\ hpc'[n] # "gather")
          => /\ \A i \in 1..Len(results[n]) : results[n][i] # Pending
             /\ Len(results[n]) = NumChecks(n)
             /\ servicesHealth'[n] = List(results[n])
             /\ raised'[n] = NoObject]_vars

\* a published snapshot with a failed first probe and healthy later ones
C8_Witness ==
    /\ hpc["a"] = "idle"
    /\ raised["a"] = NoObject
    /\ servicesHealth["a"].list
    /\ Len(servicesHealth["a"].items) = NumChecks("a")
    /\ ~servicesHealth["a"].items[1].healthy
    /\ servicesHealth["a"].items[2].healthy
    /\ servicesHealth["a"].items[3].healthy

AdmissionOutcomes == {"ok", "400", "404", "428", "503"}

C10_PartCountIsCeil ==
    transfer.op # "none" =>
       /\ transfer.parts = ExactCeilDiv(transfer.file_size, transfer.max_part_size)
       /\ IsZero(transfer.file_size) => IsZero(transfer.parts)

\* an upload of 2^53 + 1 bytes in parts of one byte, counted one part short
C10_Witness ==
    /\ transfer.op = "upload"
    /\ transfer.max_part_size = 1
    /\ transfer.file_size = Big(2 ^ (SignificandBits - LimbBits), 1)
    /\ transfer.parts = Big(2 ^ (SignificandBits - LimbBits), 0)
    /\ ExactCeilDiv(transfer.file_size, 1) = transfer.file_size

\* the jobs the running operation has submitted, and its calls of one method
JobsOf(n) == {j \in 1..Len(jobs) : jobs[j].n = n}
Calls(method) == {i \in 1..Len(run.requests) : run.requests[i].method = method}
PresignMethods == {"upload_part", "complete_multipart_upload", "get_object", "head_object"}
JobDirectory == run.work_dir \o <<"/">> \o run.username

\* the URLs of the parts 1..count, in ascending order, one each
IsPartList(urls, count) ==
    /\ urls.len = count
    /\ Listable(count) =>
          /\ Len(urls.listed) = count.lo
          /\ \A i \in 1..Len(urls.listed) :
                /\ urls.listed[i].ClientMethod = "upload_part"
                /\ urls.listed[i].Params.PartNumber = i

\* C11: for every file size F and part size P, a successful upload has issued exactly
\* ceil(F/P) part URLs, for the parts 1..ceil(F/P) in ascending order, and exactly one
\* completion URL, has submitted exactly one ingress job, in {workDir}/{username}, and
\* returns those URLs with the id of that job.
C11_UploadIssuesCeilParts ==
    (run.pc = "returned" /\ run.op = "upload") =>
       /\ IsPartList(run.post_urls, ExactCeilDiv(run.file_size, run.max_part_size))
       /\ Cardinality(Calls("complete_multipart_upload")) = 1
       /\ run.complete_url.ClientMethod = "complete_multipart_upload"
       /\ Cardinality(JobsOf(run.n)) = 1
       /\ \A j \in JobsOf(run.n) :
             /\ jobs[j].job_name = "IngressFileTransfer"
             /\ jobs[j].working_dir = JobDirectory
             /\ run.returned.job_id = j
       /\ run.returned.partsUploadUrls = run.post_urls
       /\ run.returned.completeUploadUrl = run.complete_url

\* an upload of 2^53 + 1 bytes returned with all but the last part's URL
C11_Witness ==
    /\ run.pc = "returned"
    /\ run.op = "upload"
    /\ run.file_size = Big(2 ^ (SignificandBits - LimbBits), 1)
    /\ run.max_part_size = 1
    /\ run.returned.partsUploadUrls.len = Big(2 ^ (SignificandBits - LimbBits), 0)
    /\ Cardinality(JobsOf(run.n)) = 1

\* C12: the bucket-ensure step is idempotent: no bucket has the lifecycle policy
\* applied a second time, the policy is applied to a bucket only by the operation that
\* created it, and ensuring a bucket that exists never raises (a storage fault aside).
C12_EnsureIdempotent ==
    /\ \A i, j \in 1..Len(lifecycle) :
          lifecycle[i].Bucket = lifecycle[j].Bucket => i = j
    /\ \A i \in 1..Len(lifecycle) : lifecycle[i].created = lifecycle[i].Bucket
    /\ ( /\ run.pc = "failed"
         /\ run.failed_at \in {"create", "lifecycle"}
         /\ run.bucket_name \in buckets )
       => run.error \in {"BucketError", "StorageError"}

\* with a prefix configured, a download applied the policy to the bucket an upload
\* had created and ensured before
C12_Witness ==
    /\ run.op = "download"
    /\ run.bucket_name_prefix # NoText
    /\ Len(lifecycle) = 2
    /\ lifecycle[1].Bucket = lifecycle[2].Bucket
    /\ lifecycle[2].created = run.username
    /\ lifecycle[2].created # lifecycle[2].Bucket

\* C13: a bucket creation that fails with an error other than already-owned ends the
\* operation with that error, and nothing comes after it: no lifecycle policy, no
\* multipart upload, no URL, no job.
C13_CreationErrorPropagates ==
    \A i \in Calls("create_bucket") :
       run.requests[i].response \notin {"ok", "BucketAlreadyOwnedByYou"} =>
          /\ i = Len(run.requests)
          /\ run.pc = "failed"
          /\ run.error = run.requests[i].response
          /\ \A k \in 1..Len(lifecycle) : lifecycle[k].n # run.n
          /\ run.upload_id = None
          /\ run.post_urls = NoUrls
          /\ run.complete_url = NoUrl
          /\ run.get_url = NoUrl
          /\ run.head_url = NoUrl
          /\ JobsOf(run.n) = {}

\* a download whose bucket creation failed, in its second operation
C13_Witness ==
    /\ run.pc = "failed"
    /\ run.op = "download"
    /\ run.failed_at = "create"
    /\ run.error = "BucketError"
    /\ run.n = 2
    /\ Len(jobs) = 1

\* C14: if the multipart initiation or the issuance of a presigned URL fails, the
\* operation fails with that error and has submitted no job; an operation that has
\* submitted a job returns, or has failed at the submission itself.
C14_NoJobWithoutUrls ==
    /\ \A i \in 1..Len(run.requests) :
          ( /\ run.requests[i].method \in PresignMethods \cup {"create_multipart_upload"}
            /\ run.requests[i].response # "ok" )
          => /\ run.pc = "failed"
             /\ run.error = run.requests[i].response
             /\ JobsOf(run.n) = {}
    /\ (run.pc = "failed" /\ JobsOf(run.n) # {}) => run.failed_at = "submit"

\* a download that failed at its download URL, with its job submitted
C14_Witness ==
    /\ run.pc = "failed"
    /\ run.op = "download"
    /\ run.failed_at = "get"
    /\ run.error = "StorageError"
    /\ Cardinality(JobsOf(run.n)) = 1

\* C15: a failed job submission ends the operation with that error; submit_job is
\* called at most once per operation, and nothing else is ever asked of the scheduler.
C15_SubmitOnce ==
    /\ Cardinality(Calls("submit_job")) <= 1
    /\ \A i \in 1..Len(run.requests) :
          run.requests[i].client = "scheduler" => run.requests[i].method = "submit_job"
    /\ \A i \in Calls("submit_job") :
          /\ run.requests[i].response # "ok" =>
                /\ i = Len(run.requests)
                /\ run.pc = "failed"
                /\ run.error = run.requests[i].response
                /\ JobsOf(run.n) = {}
          /\ run.requests[i].response = "ok" => Cardinality(JobsOf(run.n)) = 1

\* an upload whose submission failed: every URL was issued, no job exists
C15_Witness ==
    /\ run.pc = "failed"
    /\ run.op = "upload"
    /\ run.failed_at = "submit"
    /\ run.error = "SubmitError"
    /\ run.head_url # NoUrl
    /\ JobsOf(run.n) = {}

\* "T:B" with a tenant configured, "B" without
TenantBucket ==
    IF run.tenant # NoText
    THEN run.tenant \o <<":">> \o BucketName(run.username, run.bucket_name_prefix)
    ELSE BucketName(run.username, run.bucket_name_prefix)

\* C16: every request upload and download send to storage with a bucket parameter
\* names the bucket "T:B" when a tenant T is configured and "B" when none is.
C16_TenantBucketNaming ==
    \A i \in 1..Len(run.requests) :
       run.requests[i].client \in {"private", "public"} =>
          run.requests[i].Bucket = TenantBucket

\* with a tenant configured, an upload created its bucket under the plain name
C16_Witness ==
    /\ run.op = "upload"
    /\ run.tenant = <<"t">>
    /\ run.bucket_name_prefix = NoText
    /\ run.pc = "returned"
    /\ run.requests[1].method = "create_bucket"
    /\ run.requests[1].Bucket = <<"u">>
    /\ run.complete_url.Params.Bucket = <<"t", ":", "u">>

\* C17: for every source size S >= 0, a successful download has issued exactly
\* ceil(S/P) part URLs, has handed that count and exactly one completion URL to the
\* one egress job it submitted, and returns a download URL; with S = 0 the list of
\* part URLs is empty.
C17_DownloadIssuesCeilParts ==
    (run.pc = "returned" /\ run.op = "download") =>
       /\ IsPartList(run.post_urls, ExactCeilDiv(run.file_size, run.max_part_size))
       /\ IsZero(run.file_size) => run.post_urls = NoUrls
       /\ Cardinality(Calls("complete_multipart_upload")) = 1
       /\ Cardinality(JobsOf(run.n)) = 1
       /\ \A j \in JobsOf(run.n) :
             /\ jobs[j].job_name = "OutgressFileTransfer"
             /\ jobs[j].F7T_MP_NUM_PARTS = run.post_urls.len
             /\ jobs[j].F7T_MP_PARTS_URL = run.post_urls
             /\ jobs[j].F7T_MP_COMPLETE_URL = run.complete_url
             /\ jobs[j].F7T_MP_COMPLETE_URL.ClientMethod = "complete_multipart_upload"
             /\ run.returned.job_id = j
       /\ run.returned.download_url = run.get_url
       /\ run.returned.download_url.ClientMethod = "get_object"

\* a download of 2^53 + 1 bytes returned, its job told of one part less
C17_Witness ==
    /\ run.pc = "returned"
    /\ run.op = "download"
    /\ run.file_size = Big(2 ^ (SignificandBits - LimbBits), 1)
    /\ run.max_part_size = 2
    /\ \E j \in JobsOf(run.n) :
          jobs[j].F7T_MP_NUM_PARTS = Big(2 ^ (SignificandBits - LimbBits - 1), 0)
    /\ run.returned.download_url # NoUrl

\* the key a token names, as the cache has it
TokenKey == public_keys[Identifier(authn.token)]
KeyListed == Identifier(authn.token) \in Identifiers /\ TokenKey # NoKey
Verified == KeyListed /\ authn.token.signature = TokenKey.material

\* C18: authenticate reports three distinct errors: a token whose key identifier is
\* not in the cache "public key not found", a token with an expired signature
\* "expired", a malformed or wrongly signed token "invalid"; an expired token is never
\* reported as invalid, and none of the three as another.
C18_ThreeTokenErrors ==
    authn.pc = "answered" =>
       LET token == authn.token
           detail == authn.outcome.detail
       IN  /\ (token.wellformed /\ ~KeyListed)
                 => detail = "Token's public key not found."
           /\ (token.wellformed /\ Verified /\ token.expired)
                 => detail = "Access token expired"
           /\ (~token.wellformed \/ (KeyListed /\ ~Verified))
                 => detail = "Access token is invalid."
           /\ detail = "Token's public key not found." => (token.wellformed /\ ~KeyListed)
           /\ detail = "Access token expired" => (token.wellformed /\ Verified /\ token.expired)
           /\ detail = "Access token is invalid."
                 => ~(token.wellformed /\ Verified /\ token.expired)
           /\ detail # None => authn.outcome.kind = "raised"

\* an expired token with a listed key and a good signature, reported as expired,
\* by a verifier that checks the audience, which the token fails too
C18_Witness ==
    /\ authn.pc = "answered"
    /\ authn.audience = "aud"
    /\ authn.token.wellformed
    /\ authn.token.kid = None
    /\ authn.token.x5t = "x1"
    /\ Verified
    /\ authn.token.expired
    /\ ~authn.token.aud_ok
    /\ authn.outcome = Raise("HTTPException", "Access token expired")

\* C19: a token that passes the signature and expiry verification but whose identity
\* is inactive is rejected with "Inactive authentication", which is none of the
\* expired, invalid and key-not-found errors; an identity is returned only if active.
C19_InactiveRejected ==
    authn.pc = "answered" =>
       LET token == authn.token
           passes == /\ token.wellformed
                     /\ Verified
                     /\ ~token.expired
                     /\ (authn.audience # None => token.aud_ok)
       IN  /\ (passes /\ ~token.active)
                 => authn.outcome = Raise("HTTPException", "Inactive authentication")
           /\ authn.outcome.detail = "Inactive authentication" => (passes /\ ~token.active)
           /\ authn.outcome.kind = "returned" => (passes /\ authn.outcome.active)
           /\ "Inactive authentication" \notin {ExceptClauses[i].detail : i \in 1..Len(ExceptClauses)}

\* a verified, unexpired token of an inactive identity, rejected
C19_Witness ==
    /\ authn.pc = "answered"
    /\ authn.token.wellformed
    /\ Verified
    /\ ~authn.token.expired
    /\ ~authn.token.active
    /\ authn.outcome.detail = "Inactive authentication"

\* the fixed table: (key type, curve) -> algorithm; "*" stands for any curve
MappingTable ==
    { <<"RSA", "*", "RS256">>, <<"oct", "*", "HS256">>,
      <<"EC", None, "ES256">>, <<"EC", "P-256", "ES256">>, <<"EC", "P-384", "ES384">>,
      <<"EC", "P-521", "ES512">>, <<"EC", "secp256k1", "ES256K">>,
      <<"OKP", "Ed25519", "EdDSA">> }
Mapped(key) ==
    {row[3] : row \in {r \in MappingTable : r[1] = key.kty /\ r[2] \in {"*", key.crv}}}
Unmappable(key, override) == Absent(key.alg) /\ Absent(override) /\ Mapped(key) = {}

\* the algorithm by precedence: declared, else override, else table
Chosen(key, override) ==
    IF ~Absent(key.alg) THEN {key.alg}
    ELSE IF ~Absent(override) THEN {override}
    ELSE Mapped(key)

\* the key of the list that the cache holds under an identifier: the last one
Cached(identifier) ==
    LET named == {i \in 1..Len(authn.keys) : Identifier(authn.keys[i]) = identifier}
    IN  CHOOSE i \in named : \A j \in named : j <= i

\* C20: every fetched key is verified with its declared algorithm if it has one,
\* otherwise with the configured override if there is one, otherwise with the table's
\* algorithm for its key type and curve; a key with none of the three makes the
\* construction fail.
C20_AlgorithmPrecedence ==
    /\ authn.pc \in {"ready", "answered"} =>
          /\ \A i \in 1..Len(authn.keys) : ~Unmappable(authn.keys[i], authn.jwk_algorithm)
          /\ \A i \in 1..Len(authn.keys) :
                ~Absent(Identifier(authn.keys[i])) =>
                   LET key == authn.keys[Cached(Identifier(authn.keys[i]))]
                   IN  /\ public_keys[Identifier(key)].material = key.material
                       /\ Chosen(key, authn.jwk_algorithm)
                             = {public_keys[Identifier(key)].algorithm}
    /\ authn.pc = "failed" =>
          /\ authn.error = "ValueError"
          /\ \E i \in 1..Len(authn.keys) : Unmappable(authn.keys[i], authn.jwk_algorithm)
    /\ authn.pc = "new" => public_keys = NoKeys

\* a verifier with an override, built from a key that declares its algorithm
C20_Witness ==
    /\ authn.pc = "ready"
    /\ authn.jwk_algorithm = "ES384"
    /\ authn.keys = <<JWK("k1", None, "RS512", "EC", "P-521", "m1")>>
    /\ public_keys["k1"].algorithm = "RS512"

\* some verifier has been constructed and is in use
SomeVerifier == \E o \in Owners : verifiers[o].pc = "ready"

\* C21: once a verifier has been constructed, no later step (a verification, the
\* construction of a further verifier) adds, replaces or removes a key of the cache
\* the verifier reads.
C21_CacheReadOnly ==
    [][SomeVerifier => public_keys' = public_keys]_vars

\* the verifier of the request path is in use, and the construction of a health
\* checker's verifier has replaced a key it had been reading
C21_Witness ==
    /\ verifiers["api"].pc = "ready"
    /\ construction.owner = "health"
    /\ \E identifier \in Identifiers :
          /\ construction.before[identifier] # NoKey
          /\ public_keys[identifier] # construction.before[identifier]

\* the cache built from nothing but the keys of the endpoints that answered
KeysOf(answers, jwk_algorithm) == LoadKeys(Fetch(answers), NoKeys, jwk_algorithm).public_keys
AllFailed(answers) == answers # << >> /\ \A i \in 1..Len(answers) : ~answers[i].list
OverrideOf(owner) == IF owner = "api" THEN None ELSE oidc.jwk_algorithm
KeyNotFound(outcome) ==
    /\ outcome.kind = "raised"
    /\ \/ outcome.exception = "KeyError"
       \/ outcome.detail = "Token's public key not found."

\* C22: whichever endpoints fail, a construction whose fetched keys all have an
\* algorithm completes, and leaves in the cache exactly the identified keys of the
\* endpoints that answered; when every endpoint failed the cache is empty and every
\* well-formed token handed to that verifier fails with key-not-found.
C22_EndpointFailuresTolerated ==
    [][/\ construction' # construction =>
            LET keys == Fetch(construction'.answers)
                override == OverrideOf(construction'.owner)
            IN  /\ construction'.error # None =>
                       \E i \in 1..Len(keys) : Unmappable(keys[i], override)
                /\ construction'.error = None =>
                       public_keys' = KeysOf(construction'.answers, override)
       /\ ( /\ verified' # verified
            /\ verified'.owner = construction.owner
            /\ construction.error = None
            /\ AllFailed(construction.answers)
            /\ verified'.token.wellformed ) => KeyNotFound(verified'.outcome)]_vars

\* a construction all of whose endpoints failed has completed, and the cache holds a key
C22_Witness ==
    /\ construction.owner # None
    /\ construction.error = None
    /\ AllFailed(construction.answers)
    /\ public_keys # NoKeys

\* what a verification that checks signature, expiry and the given audience accepts
Passes(token, audience) ==
    /\ token.wellformed
    /\ Identifier(token) \in Identifiers
    /\ public_keys[Identifier(token)] # NoKey
    /\ token.signature = public_keys[Identifier(token)].material
    /\ ~token.expired
    /\ ~Absent(audience) => token.aud_ok

\* C30: on the request path and in the health checker, a token is accepted exactly
\* when its signature verifies, it has not expired and, if the settings configure an
\* audience, its audience is the configured one.
C30_AudienceWhenConfigured ==
    [][verified' # verified =>
          (verified'.outcome.kind = "returned" <=> Passes(verified'.token, oidc.audience))]_vars

\* an audience is configured, and the request path has accepted a token of another one
C30_Witness ==
    /\ verified.owner = "api"
    /\ ~Absent(oidc.audience)
    /\ ~verified.token.aud_ok
    /\ verified.outcome.kind = "returned"

\* C23: resolving the backend of a cluster with no filesystem marked default work dir
\* fails with the configuration error, whatever the health snapshot holds, and with a
\* marked filesystem the orchestrator gets the path of the first marked one.
C23_MissingWorkDirIsConfigurationError ==
    (backend.pc = "done" /\ backend.system_name \in ClusterNames) =>
        LET work_dir == DefaultWorkDir(file_systems[backend.system_name])
        IN  /\ NoWorkDir(work_dir) => backend.outcome = "ValueError"
            /\ backend.outcome = "returned" => backend.work_dir = work_dir

\* the backend of a cluster without a marked filesystem was asked for while the
\* cluster's scheduler was reported unhealthy: the answer is the gate's
C23_Witness ==
    /\ backend.pc = "done"
    /\ backend.system_name = "a"
    /\ NoWorkDir(DefaultWorkDir(file_systems["a"]))
    /\ backend.outcome = "503"

\* the pools the registry holds
Registered == {client_pools[n] : n \in {m \in SystemNames : client_pools[m] # NoObject}}

\* C24: prune can run whatever the acquire calls are doing (it waits for no lock),
\* invokes the eviction on every pool of the registry and leaves the registry's
\* mapping from names to pools as it was.
C24_PruneKeepsRegistry ==
    [][/\ pruned' # pruned => /\ client_pools' = client_pools
                              /\ Registered \subseteq pruned'
                              /\ UNCHANGED <<lock, pc, result, constructed>>
       /\ ~(Registered \subseteq pruned) => ENABLED PrunePools]_vars

\* every pool of the registry has been pruned while a caller is inside the critical
\* section, about to construct the pool of another cluster
C24_Witness ==
    /\ Registered # {}
    /\ Registered \subseteq pruned
    /\ \E c \in Callers : lock = c /\ pc[c] = "construct"

\* the positions of the calls of some methods in the running operation's log
CallsOf(methods) == {i \in 1..Len(run.requests) : run.requests[i].method \in methods}
\* every call of `later` comes after a call of `earlier` that returned, and after
\* every call of `earlier`
Follows(earlier, later) ==
    \A j \in CallsOf(later) :
       /\ \A i \in CallsOf(earlier) : i < j
       /\ \E i \in CallsOf(earlier) :
             run.requests[i].response \in {"ok", "BucketAlreadyOwnedByYou"}

\* C25: within one upload or download the bucket-ensure has returned before the
\* multipart upload is opened, the multipart upload is open before a part or completion
\* URL is issued, the completion URL (issued after the part URLs) is there before the
\* job is submitted, and no call is made after one that failed.
C25_StepsSequential ==
    /\ Follows({"create_bucket"}, {"create_multipart_upload"})
    /\ Follows({"put_bucket_lifecycle_configuration"}, {"create_multipart_upload"})
          \/ CallsOf({"put_bucket_lifecycle_configuration"}) = {}
    /\ Follows({"create_multipart_upload"}, {"upload_part", "complete_multipart_upload"})
    /\ Follows({"upload_part"}, {"complete_multipart_upload"})
          \/ CallsOf({"upload_part"}) = {}
    /\ Follows({"complete_multipart_upload"}, {"submit_job"})
    /\ \A i \in 1..Len(run.requests) :
          i < Len(run.requests) =>
             run.requests[i].response \in {"ok", "BucketAlreadyOwnedByYou"}

\* an upload that went through every step: bucket, lifecycle, multipart, part URLs,
\* completion URL, job
C25_Witness ==
    /\ run.op = "upload"
    /\ run.pc = "returned"
    /\ CallsOf({"put_bucket_lifecycle_configuration"}) # {}
    /\ CallsOf({"upload_part"}) # {}
    /\ CallsOf({"submit_job"}) # {}

\* C26: a download stats the source first; if the stat fails the operation ends there,
\* with no storage call made, no URL issued and no job submitted; the get URL is issued
\* only after the job was submitted successfully.
C26_StatFirst ==
    run.op = "download" =>
       /\ run.requests # << >> => run.requests[1].method = "execute"
       /\ (run.requests # << >> /\ run.requests[1].response # "ok") =>
             /\ Len(run.requests) = 1
             /\ run.pc = "failed"
             /\ JobsOf(run.n) = {}
             /\ run.post_urls = NoUrls
             /\ run.complete_url = NoUrl
             /\ run.get_url = NoUrl
       /\ \A j \in CallsOf({"get_object"}) :
             \E i \in CallsOf({"submit_job"}) :
                i < j /\ run.requests[i].response = "ok" /\ JobsOf(run.n) # {}

\* a download whose stat failed
C26_Witness ==
    /\ run.op = "download"
    /\ run.pc = "failed"
    /\ run.error = "StatError"
    /\ Len(run.requests) = 1

\* the endpoint a URL is for: the end user's client is served by the public one, the
\* job on the cluster by the private one
Endpoint(op, method) ==
    IF op = "upload"
    THEN (IF method \in {"upload_part", "complete_multipart_upload"} THEN "public"
          ELSE "private")
    ELSE (IF method \in {"upload_part", "complete_multipart_upload"} THEN "private"
          ELSE "public")

\* C27: in upload the part and completion URLs are signed at the public endpoint and
\* the get and head URLs at the private one; in download the part and completion URLs
\* at the private endpoint and the get URL at the public one.
C27_EndpointPerAudience ==
    /\ \A i \in CallsOf(PresignMethods) :
          run.requests[i].client = Endpoint(run.op, run.requests[i].method)
    /\ \A i \in 1..Len(run.post_urls.listed) :
          run.post_urls.listed[i].client = Endpoint(run.op, "upload_part")
    /\ run.complete_url # NoUrl =>
          run.complete_url.client = Endpoint(run.op, "complete_multipart_upload")
    /\ run.get_url # NoUrl => run.get_url.client = Endpoint(run.op, "get_object")
    /\ run.head_url # NoUrl => run.head_url.client = Endpoint(run.op, "head_object")

\* a finished download: part URLs for the job, the get URL for the end user
C27_Witness ==
    /\ run.op = "download"
    /\ run.pc = "returned"
    /\ Len(run.post_urls.listed) > 0
    /\ run.post_urls.listed[1].client = "private"
    /\ run.get_url.client = "public"

\* the bucket a request names, without the tenant a presigned URL puts in front
Unqualified(bucket) ==
    IF run.tenant # NoText /\ Len(bucket) > Len(run.tenant) + 1
                           /\ SubSeq(bucket, 1, Len(run.tenant) + 1) = run.tenant \o <<":">>
    THEN SubSeq(bucket, Len(run.tenant) + 2, Len(bucket))
    ELSE bucket

\* C28: in upload and download, with or without a prefix, the bucket that is created
\* (or found), the bucket the lifecycle policy is put on, the bucket of the multipart
\* upload and the bucket of every URL are the same: prefix + username.
C28_OneBucket ==
    \A i \in 1..Len(run.requests) :
       run.requests[i].client \in {"private", "public"} =>
          Unqualified(run.requests[i].Bucket) =
             BucketName(run.username, run.bucket_name_prefix)

\* a download under a prefix: the bucket created is not the one the multipart upload
\* is opened in
C28_Witness ==
    /\ run.op = "download"
    /\ run.bucket_name_prefix # NoText
    /\ \E i \in CallsOf({"create_bucket"}), j \in CallsOf({"create_multipart_upload"}) :
          run.requests[i].Bucket # run.requests[j].Bucket

\* C29: a filesystem admission check with a requested path takes its outcome from a
\* filesystem record whose monitored path is a prefix of the requested one (success if
\* that record is healthy, 503 if not); if the snapshot has no such record the outcome
\* is 428, whatever other records it holds.
C29_PrefixRecordDecides ==
    [][( /\ Checked
         /\ admission'.kind = "filesystem"
         /\ admission'.path # NoPath
         /\ admission'.system_name \in ClusterNames
         /\ ~admission'.ignore_health )
       => LET health == servicesHealth[admission'.system_name]
              prefixes == Serving("filesystem", admission'.path, health)
          IN  IF prefixes = {} THEN admission'.outcome = "428"
              ELSE \E i \in prefixes :
                      admission'.outcome = IF health.items[i].healthy THEN "ok" ELSE "503"]_vars

\* a request below the monitored path was admitted on the healthy record of /s, and
\* the snapshot also holds records of other kinds
C29_Witness ==
    /\ admission.system_name = "a"
    /\ admission.kind = "filesystem"
    /\ admission.path = PathSC
    /\ ~admission.ignore_health
    /\ admission.outcome = "ok"
    /\ servicesHealth["a"].list
    /\ \E i \in 1..Len(servicesHealth["a"].items) :
          servicesHealth["a"].items[i].service_type = "scheduler"

\* C31: the snapshot a cycle publishes after its token step succeeded has exactly
\* 2 + (number of configured filesystems) entries: the scheduler probe's, the ssh
\* probe's, then for each filesystem, in configuration order, the result of the probe
\* of that filesystem's path, as gather() collected it.
C31_SnapshotShape ==
    [][\A n \in ClusterNames :
          (hpc[n] = "gather" /\ hpc'[n] = "idle") =>
             /\ servicesHealth'[n].list
             /\ LET items == servicesHealth'[n].items
                IN  /\ Len(items) = 2 + Len(file_systems[n])
                    /\ items = results[n]
                    /\ items[1].service_type = "scheduler"
                    /\ items[2].service_type = "ssh"
                    /\ \A i \in 1..Len(file_systems[n]) :
                          /\ items[2 + i].service_type = "filesystem"
                          /\ items[2 + i].path = file_systems[n][i].path]_vars

\* cluster a, with two filesystems, has published four entries: /s healthy, /h not
C31_Witness ==
    /\ hpc["a"] = "idle"
    /\ servicesHealth["a"].list
    /\ Len(servicesHealth["a"].items) = 2 + Len(file_systems["a"])
    /\ servicesHealth["a"].items[3].path = PathS
    /\ servicesHealth["a"].items[3].healthy
    /\ servicesHealth["a"].items[4].path = PathH
    /\ ~servicesHealth["a"].items[4].healthy

\* C32: only the health checker's cycle writes a cluster's snapshot, and it does so
\* only where it publishes (the end of gather, or the except branch); every other
\* step -- admission checks, pool acquisition, prune, backend resolution, upload,
\* download -- leaves every cluster's snapshot unchanged, and no step at all changes
\* another field of a cluster descriptor (its list of filesystems).
C32_OnlyCycleWritesSnapshot ==
    [][/\ file_systems' = file_systems
       /\ \A n \in ClusterNames :
             servicesHealth'[n] # servicesHealth[n] =>
                /\ hpc[n] \in {"token", "gather"} /\ hpc'[n] = "idle"
                /\ \A m \in ClusterNames \ {n} : servicesHealth'[m] = servicesHealth[m]]_vars

\* cluster b's published snapshot is still in place after a gate passed on it, a pool
\* was constructed for it and returned, and the registry was pruned
C32_Witness ==
    /\ hpc["b"] = "idle" /\ servicesHealth["b"].list
    /\ Serving("ssh", NoPath, servicesHealth["b"]) # {}
    /\ client_pools["b"] # NoObject
    /\ client_pools["b"] \in pruned
    /\ \E c \in Callers : pc[c] = "done" /\ result[c] = Returned(client_pools["b"])

\* a caller that holds a session: its acquire has returned a pool it has not let go of
Holding(c) == pc[c] = "done" /\ result[c].kind = "returned"

\* C33: the registry lock is held exactly across the registry lookup and insert: a
\* caller that holds a session (or that is before the locked region, or has raised)
\* does not hold it.  So while sessions are held, a caller waiting for the lock can
\* take it unless another caller is inside the lookup or insert, a prune can run on
\* every pool it has not pruned yet, and the health cycle can take its next step,
\* whether or not the lock is held.
C33_LockOnlyAcrossRegistry ==
    /\ \A c \in Callers : lock = c <=> pc[c] \in {"lookup", "construct"}
    /\ \A c \in Callers : Holding(c) => lock # c
    /\ \A d \in Callers :
          (pc[d] = "lock" /\ \A e \in Callers : pc[e] \notin {"lookup", "construct"})
             => ENABLED AcquireLock(d)
    /\ (\E n \in SystemNames : client_pools[n] # NoObject /\ client_pools[n] \notin pruned)
          => ENABLED PrunePools
    /\ (hpc["b"] = "idle" /\ clock < MaxCycles) => ENABLED CycleStart("b")
    /\ hpc["b"] = "token" => ENABLED TokenOk("b")
    /\ (hpc["b"] = "gather" /\ Gather(results["b"]).done) => ENABLED GatherReturn("b")

\* one caller holds a session while another is inside the locked region and the
\* health cycle of b is under way
C33_Witness ==
    \E c, d \in Callers :
        /\ Holding(c)
        /\ pc[d] = "lookup" /\ lock = d
        /\ hpc["b"] = "gather"

\* the snapshot of cluster n holds a record of this kind and the first one is healthy
HealthyRecord(kind, n) ==
    LET at == Serving(kind, NoPath, servicesHealth[n])
    IN  /\ at # {}
        /\ \A i \in at : (\A j \in at : i <= j) => servicesHealth[n].items[i].healthy

\* C34: the resolution of the transfer orchestrator gets past a gate only on a
\* snapshot that, at that moment, holds a healthy record of the gate's service: its
\* first step needs a healthy scheduler record and a healthy ssh record, its second
\* a healthy ssh record, and the step that builds the orchestrator a healthy
\* scheduler record.  The scheduler gate comes first: a resolution that starts for
\* a known cluster whose scheduler record is missing or unhealthy ends in that step
\* with 428 or 503, the registry and the construction counts untouched, and an
\* orchestrator is built only by a resolution that passed every gate.
C34_SchedulerGateFirst ==
    [][/\ (backend.pc = "none" /\ backend'.pc = "ssh_client") =>
             /\ HealthyRecord("scheduler", backend'.system_name)
             /\ HealthyRecord("ssh", backend'.system_name)
       /\ (backend.pc = "ssh_client" /\ backend'.pc = "system") =>
             HealthyRecord("ssh", backend.system_name)
       /\ (backend.outcome # "returned" /\ backend'.outcome = "returned") =>
             /\ backend.pc = "system"
             /\ HealthyRecord("scheduler", backend.system_name)
       /\ (/\ backend.pc = "none" /\ backend'.pc # "none"
           /\ KnownCluster(backend'.system_name)
           /\ ~HealthyRecord("scheduler", backend'.system_name)) =>
             /\ backend'.pc = "done"
             /\ backend'.outcome \in {"428", "503"}
             /\ backend'.outcome = "503" <=>
                    Serving("scheduler", NoPath, servicesHealth[backend'.system_name]) # {}
             /\ client_pools' = client_pools
             /\ constructed' = constructed]_vars

\* a resolution for cluster a was refused 503 on its unhealthy scheduler record while
\* the ssh record was healthy, and no pool has been constructed
C34_Witness ==
    /\ backend.system_name = "a" /\ backend.pc = "done" /\ backend.outcome = "503"
    /\ ~HealthyRecord("scheduler", "a")
    /\ HealthyRecord("ssh", "a")
    /\ constructed["a"] = 0 /\ client_pools["a"] = NoObject

\* a snapshot that says nothing about any service: absent (no cycle has completed),
\* empty, or the one internal-error record of a failed cycle
Uninformative(health) ==
    \/ ~health.list
    \/ health.items = << >>
    \/ Len(health.items) = 1 /\ health.items[1].service_type = "exception"

\* C35, as claimed: for a known cluster, health not ignored, an admission check for
\* scheduler, ssh or filesystem made on an absent, empty or internal-error-only
\* snapshot fails with precondition-required (428).
C35_UninformativeIsPrecondition ==
    [][( /\ Checked
         /\ admission'.system_name \in ClusterNames
         /\ ~admission'.ignore_health
         /\ admission'.kind \in AdmissionKinds
         /\ Uninformative(servicesHealth[admission'.system_name]) )
       => admission'.outcome = "428"]_vars

\* C35, amended: on such a snapshot a filesystem check whose request carries no path
\* fails with 400; every other check for scheduler, ssh or filesystem fails with 428.
\* None succeeds and none reports 503.
C35_UninformativeNeverServes ==
    [][( /\ Checked
         /\ admission'.system_name \in ClusterNames
         /\ ~admission'.ignore_health
         /\ admission'.kind \in AdmissionKinds
         /\ Uninformative(servicesHealth[admission'.system_name]) )
       => /\ admission'.outcome =
                IF admission'.kind = "filesystem" /\ admission'.path = NoPath
                THEN "400" ELSE "428"
          /\ admission'.outcome \notin {"ok", "503"}]_vars

\* the second cycle of cluster a failed, and a filesystem request below /s, which
\* no cycle has a record for any more, was refused 428
C35_Witness ==
    /\ admission.system_name = "a" /\ ~admission.ignore_health
    /\ admission.kind = "filesystem" /\ admission.path = PathSC
    /\ admission.outcome = "428"
    /\ hpc["a"] = "idle" /\ clock = MaxCycles
    /\ servicesHealth["a"].list /\ Len(servicesHealth["a"].items) = 1
    /\ servicesHealth["a"].items[1].service_type = "exception"
    /\ servicesHealth["a"].items[1].last_checked = MaxCycles

Acquiring(c) == pc[c] \in {"lock", "lookup", "construct"}

\* how an acquire call may end
Terminated(c) ==
    /\ pc[c] = "done"
    /\ \/ result[c].kind = "returned" /\ IsPool(result[c].value)
       \/ result[c].kind = "raised" /\ result[c].status \in {"404", "428", "503"}

\* C37: under fair scheduling every acquire call terminates, with a pool or with
\* 404, 428 or 503: a call that is waiting for the lock or is inside the locked
\* region eventually ends, whatever the other callers do, and a call that has ended
\* does not hold the lock.
C37_AcquireTerminates ==
    /\ [](\A c \in Callers : pc[c] = "done" => Terminated(c) /\ lock # c)
    /\ \A c \in Callers : Acquiring(c) ~> Terminated(c)

\* both callers' calls have ended, one with b's pool after waiting for the lock, the
\* other refused 503, and the lock is free
C37_Witness ==
    \E c, d \in Callers :
        /\ Terminated(c) /\ result[c].kind = "returned" /\ result[c].value.system_name = "b"
        /\ Terminated(d) /\ result[d].kind = "raised" /\ result[d].status = "503"
        /\ lock = NoCaller

\* the lifecycle policy has been applied to the bucket
HasLifecycle(bucket) == \E i \in 1..Len(lifecycle) : lifecycle[i].Bucket = bucket

\* C38, as claimed: whenever an upload or a download opens a multipart upload on a
\* bucket the gateway created, the lifecycle policy has been applied to that bucket.
C38_LifecycleBeforeMultipart ==
    [][(run.pc = "multipart" /\ run'.pc = "parts" /\ run.bucket_name \in buckets)
          => HasLifecycle(run.bucket_name)]_vars

\* the second operation has opened its multipart upload on the bucket the first one
\* created, and the policy was never applied to it
C38_Witness ==
    /\ run.n = MaxTransfers /\ run.pc = "parts" /\ run.upload_id # None
    /\ run.bucket_name \in buckets
    /\ run.created = NoText
    /\ ~HasLifecycle(run.bucket_name)

\* C39: when several filesystem records of the snapshot monitor a prefix of the
\* requested path, the outcome of the filesystem admission check is that of the
\* first of them in snapshot order, which is the order of the configured
\* filesystems: success if it is healthy, 503 if not, whatever the later records,
\* with longer prefixes or not, say.
C39_FirstPrefixRecordDecides ==
    [][( /\ Checked
         /\ admission'.system_name \in ClusterNames
         /\ ~admission'.ignore_health
         /\ admission'.kind = "filesystem" /\ admission'.path # NoPath )
       => LET n == admission'.system_name
              items == servicesHealth[n].items
              serving == Serving("filesystem", admission'.path, servicesHealth[n])
              first == CHOOSE i \in serving : \A j \in serving : i <= j
          IN  Cardinality(serving) >= 2 =>
                 /\ admission'.outcome = IF items[first].healthy THEN "ok" ELSE "503"
                 /\ \A i, j \in serving :
                       i < j => \E k, l \in 1..Len(file_systems[n]) :
                                   /\ k < l
                                   /\ file_systems[n][k].path = items[i].path
                                   /\ file_systems[n][l].path = items[j].path]_vars

\* /s is configured before /s/c; a request for /s/c was refused 503 on the unhealthy
\* record of /s, although the record of /s/c, the longer prefix, is healthy
C39_Witness ==
    /\ file_systems["a"][1].path = PathS
    /\ admission.system_name = "a" /\ admission.kind = "filesystem"
    /\ admission.path = PathSC /\ admission.outcome = "503"
    /\ hpc["a"] = "idle" /\ servicesHealth["a"].list
    /\ Len(servicesHealth["a"].items) = 4
    /\ servicesHealth["a"].items[3].path = PathS /\ ~servicesHealth["a"].items[3].healthy
    /\ servicesHealth["a"].items[4].path = PathSC /\ servicesHealth["a"].items[4].healthy
    /\ servicesHealth["a"].items[4].last_checked = 1

====
